---------------------------- MODULE Spec2Model ----------------------------
(***************************************************************************)
(* The archive view's text helpers (src/src/pages/Archive.tsx): the        *)
(* paragraph-aware paginator and the genre tag / keyword classifier.       *)
(* A JavaScript string is a sequence of one-character strings; the empty   *)
(* string is << >>.                                                        *)
(***************************************************************************)
EXTENDS Integers, Sequences, FiniteSets, TLC

VARIABLES
    pc,                 \* "input" before the helper is called, "done" after
    content,            \* the content argument (book.content_md)
    approxCharsPerPage, \* paginate's page budget
    pages,              \* the value paginate returned
    summary,            \* the summary argument (book.summary)
    genre,              \* the genre argument of applyGenreTag
    derived,            \* the value deriveGenre returned
    taggedSummary,      \* the value applyGenreTag returned
    stripped,           \* the value stripGenreTag returned for taggedSummary
    books,              \* Archive: the loaded documents, in the order they were loaded
    favorites,          \* Archive: the set of favorite ids
    searchQuery,        \* Archive: the search input's value
    debouncedQuery,     \* Archive: the query the filter uses
    selectedGenre,      \* Archive: the genre filter
    sortBy,             \* Archive: the sort key
    onlyFavorites,      \* Archive: the favorites-only toggle
    searchTimer,        \* Archive: the pending timer of the debounce effect
    heldMs,             \* the time the search input has held its value, up to the delay
    storedFavorites,    \* localStorage: the item under the key "favorites"
    supabase,           \* the backing-store client, Null if it is not configured
    user,               \* AuthContext: the session user
    expandedBook,       \* Archive: the document open in the reader
    isEditing,          \* Archive: the reader shows the edit form
    editDraft,          \* Archive: the edit form's name, summary and content_md
    editGenre,          \* Archive: the edit form's genre
    addForm,            \* Archive: the add dialog (open, title, content, newGenre)
    loadingBooks,       \* Archive: the list query is under way
    pending,            \* the request in flight, with the store's reply once given
    notice,             \* the toast the last step raised, NoNotice if it raised none
    loading,            \* AuthContext: the provider has not yet settled the session
    session,            \* the auth service: the account of the live session, "none" without one
    storedTs,           \* localStorage: the time under "randonia:lastLoginAt", 0 without the item
    now,                \* Date.now()
    timers,             \* the due times of the expiry timers that were set and have not run
    calls,              \* AuthContext: the calls that are awaited, and the scheduled mount effect
    authError,          \* the error the last step threw, "" if it threw none
    loginAt,            \* the time of the last login or sign-up with a session, 0 without one
    loggedOut,          \* logout() has completed since that login
    expired,            \* the expiry has signed the user out since that login
    table,              \* the store: the rows of the books table
    urlBook,            \* the page URL: the id under the query parameter "book", 0 without it
    pageIndex,          \* Archive: the index of the page the reader shows
    storedDrafts,       \* localStorage: the items under the keys "draft:<id>"
    draftOf,            \* the id of the document editDraft was last filled from, 0 at first
    storedAddDraft,     \* localStorage: the item under the key "addDraft"
    addTimer,           \* Archive: what the pending timer of the add form's autosave will store
    unhandled           \* a promise of a handler has been rejected with nothing to catch it

helperVars == <<pc, content, approxCharsPerPage, pages, summary, genre, derived, taggedSummary, stripped>>

filterVars == <<books, favorites, searchQuery, debouncedQuery, selectedGenre, sortBy, onlyFavorites>>

archiveVars == <<searchTimer, heldMs, storedFavorites>>

storeVars ==
    <<supabase, user, expandedBook, isEditing, editDraft, editGenre, addForm, loadingBooks,
      pending, notice>>

authVars ==
    <<loading, session, storedTs, now, timers, calls, authError, loginAt, loggedOut, expired>>

readerVars == <<table, urlBook, pageIndex, storedDrafts, draftOf>>

formVars == <<storedAddDraft, addTimer, unhandled>>

appVars == <<filterVars, archiveVars, storeVars, authVars, readerVars, formVars>>

vars == <<helperVars, appVars>>

(***************************************************************************)
(* Characters and strings                                                  *)
(***************************************************************************)
SP == " "
NL == "\n"
TAB == "\t"

\* The characters JavaScript's \s and trim() treat as white space (those used here).
WhiteSpace == {SP, NL, TAB}

EmptyStr == << >>

\* Bounds of the paginator's inputs: the longest content over PlainChars, the
\* longest content over MixedChars, and the largest page budget.
MaxLen == 8
MaxMixedLen == 5
MaxBudget == 5

\* paginate's default approxCharsPerPage.
DefaultBudget == 1400

\* Characters the paginator's inputs are written in.
PlainChars == {"a", SP, NL}
MixedChars == {"a", "b", SP, NL, TAB}

RECURSIVE StringsUpTo(_, _)
StringsUpTo(chars, n) ==
    IF n = 0 THEN {EmptyStr}
    ELSE LET shorter == StringsUpTo(chars, n - 1)
         IN shorter \cup {Append(s, c) : s \in {t \in shorter : Len(t) = n - 1}, c \in chars}

\* An operator's arguments are evaluated when they are first used; comparing a
\* value with itself computes it at that place (the loops below compute the state
\* left by the first half of a range before they enter the second half).
Evaluated(v) == v = v

\* Index of the first character of s that is not white space (Len(s) + 1 if none).
firstNonSpace(s) ==
    IF \A i \in 1..Len(s) : s[i] \in WhiteSpace THEN Len(s) + 1
    ELSE CHOOSE i \in 1..Len(s) : s[i] \notin WhiteSpace /\ \A j \in 1..(i - 1) : s[j] \in WhiteSpace

\* Index of the last character of s that is not white space (0 if none).
lastNonSpace(s) ==
    IF \A i \in 1..Len(s) : s[i] \in WhiteSpace THEN 0
    ELSE CHOOSE i \in 1..Len(s) : s[i] \notin WhiteSpace /\ \A j \in (i + 1)..Len(s) : s[j] \in WhiteSpace

\* String.prototype.trimStart
trimStart(s) == SubSeq(s, firstNonSpace(s), Len(s))

\* String.prototype.trimEnd
trimEnd(s) == SubSeq(s, 1, lastNonSpace(s))

\* String.prototype.trim
trim(s) == trimEnd(trimStart(s))

\* A match of the separator pattern "minRun or more characters of seps" starts at
\* position i of s: the pattern is greedy, so a match is a maximal run.
sepStartsAt(s, i, seps, minRun) ==
    /\ s[i] \in seps
    /\ (i = 1 \/ s[i - 1] \notin seps)
    /\ \A k \in i..(i + minRun - 1) : k <= Len(s) /\ s[k] \in seps

\* Last position of the run of separator characters that starts at i.
sepEnd(s, i, seps) ==
    CHOOSE j \in i..Len(s) : (j = Len(s) \/ s[j + 1] \notin seps) /\ \A k \in i..j : s[k] \in seps

\* The start positions of the separator matches within lo..hi, in order. The range
\* is halved rather than walked so that long strings evaluate in bounded depth.
RECURSIVE sepStarts(_, _, _, _, _)
sepStarts(s, lo, hi, seps, minRun) ==
    IF lo > hi THEN << >>
    ELSE IF lo = hi THEN (IF sepStartsAt(s, lo, seps, minRun) THEN <<lo>> ELSE << >>)
    ELSE LET mid == (lo + hi) \div 2
         IN sepStarts(s, lo, mid, seps, minRun) \o sepStarts(s, mid + 1, hi, seps, minRun)

\* String.prototype.split on the pattern "minRun or more characters of seps"
\* (/\n{2,}/ and /\s+/): the pieces between the matches, an empty piece where a
\* match starts or ends the string.
split(s, seps, minRun) ==
    LET at == sepStarts(s, 1, Len(s), seps, minRun)
        n == Len(at)
    IN [k \in 1..(n + 1) |->
           SubSeq(s,
                  IF k = 1 THEN 1 ELSE sepEnd(s, at[k - 1], seps) + 1,
                  IF k = n + 1 THEN Len(s) ELSE at[k] - 1)]

\* text.split(/\n{2,}/)
splitParagraphs(text) == split(text, {NL}, 2)

\* p.split(/\s+/)
splitWords(p) == split(p, WhiteSpace, 1)

(***************************************************************************)
(* paginate                                                                *)
(***************************************************************************)

\* wordStep with the budget test off by one: a chunk may grow one character
\* past the budget.
wordStepOverBudget(st, w, budget) ==
    LET next == IF st.chunk # EmptyStr THEN st.chunk \o <<SP>> \o w ELSE w
    IN IF Len(next) > budget + 1
       THEN [pages |-> IF st.chunk # EmptyStr THEN Append(st.pages, st.chunk) ELSE st.pages,
             chunk |-> w]
       ELSE [pages |-> st.pages, chunk |-> next]

\* wordStep without the `if (chunk)` test: an empty chunk is pushed as a page.
wordStepPushEmpty(st, w, budget) ==
    LET next == IF st.chunk # EmptyStr THEN st.chunk \o <<SP>> \o w ELSE w
    IN IF Len(next) > budget
       THEN [pages |-> Append(st.pages, st.chunk), chunk |-> w]
       ELSE [pages |-> st.pages, chunk |-> next]

\* wordStep that starts the next chunk empty: the word that overflowed is lost.
wordStepDropWord(st, w, budget) ==
    LET next == IF st.chunk # EmptyStr THEN st.chunk \o <<SP>> \o w ELSE w
    IN IF Len(next) > budget
       THEN [pages |-> IF st.chunk # EmptyStr THEN Append(st.pages, st.chunk) ELSE st.pages,
             chunk |-> EmptyStr]
       ELSE [pages |-> st.pages, chunk |-> next]

\* wordStep that closes the chunk as soon as it would reach the budget (>= for >).
wordStepEager(st, w, budget) ==
    LET next == IF st.chunk # EmptyStr THEN st.chunk \o <<SP>> \o w ELSE w
    IN IF Len(next) >= budget
       THEN [pages |-> IF st.chunk # EmptyStr THEN Append(st.pages, st.chunk) ELSE st.pages,
             chunk |-> w]
       ELSE [pages |-> st.pages, chunk |-> next]

\* One turn of the inner loop `for (const w of words)`: st is [pages, chunk].
wordStep(st, w, budget) ==
    LET next == IF st.chunk # EmptyStr THEN st.chunk \o <<SP>> \o w ELSE w
    IN IF Len(next) > budget
       THEN [pages |-> IF st.chunk # EmptyStr THEN Append(st.pages, st.chunk) ELSE st.pages,
             chunk |-> w]
       ELSE [pages |-> st.pages, chunk |-> next]

\* The inner loop over words[lo..hi], in order (the range is halved, see sepStarts).
RECURSIVE wordLoop(_, _, _, _, _)
wordLoop(st, words, lo, hi, budget) ==
    IF lo > hi THEN st
    ELSE IF lo = hi THEN wordStep(st, words[lo], budget)
    ELSE LET mid == (lo + hi) \div 2
             left == wordLoop(st, words, lo, mid, budget)
         IN IF Evaluated(left) THEN wordLoop(left, words, mid + 1, hi, budget) ELSE left

\* One turn of the outer loop `for (const p of paragraphs)`: st is [pages, current].
paragraphStep(st, p, budget) ==
    LET joined == st.current \o (IF st.current # EmptyStr THEN <<NL, NL>> ELSE EmptyStr) \o p
    IN IF Len(joined) <= budget
       THEN [pages |-> st.pages, current |-> joined]
       ELSE LET closed == IF st.current # EmptyStr
                          THEN [pages |-> Append(st.pages, st.current), current |-> EmptyStr]
                          ELSE st
            IN IF Len(p) <= budget
               THEN [pages |-> closed.pages, current |-> p]
               ELSE LET words == splitWords(p)
                        ws == wordLoop([pages |-> closed.pages, chunk |-> EmptyStr],
                                       words, 1, Len(words), budget)
                    IN IF ws.chunk # EmptyStr
                       THEN [pages |-> IF closed.current # EmptyStr
                                       THEN Append(ws.pages, closed.current)
                                       ELSE ws.pages,
                             current |-> ws.chunk]
                       ELSE [pages |-> ws.pages, current |-> closed.current]

\* The outer loop over paragraphs[lo..hi], in order.
RECURSIVE paragraphLoop(_, _, _, _, _)
paragraphLoop(st, paragraphs, lo, hi, budget) ==
    IF lo > hi THEN st
    ELSE IF lo = hi THEN paragraphStep(st, paragraphs[lo], budget)
    ELSE LET mid == (lo + hi) \div 2
             left == paragraphLoop(st, paragraphs, lo, mid, budget)
         IN IF Evaluated(left) THEN paragraphLoop(left, paragraphs, mid + 1, hi, budget) ELSE left

paginate(c, budget) ==
    LET text == trim(c)
    IN IF text = EmptyStr THEN <<EmptyStr>>
       ELSE LET paragraphs == splitParagraphs(text)
                st == paragraphLoop([pages |-> << >>, current |-> EmptyStr],
                                    paragraphs, 1, Len(paragraphs), budget)
                out == IF st.current # EmptyStr THEN Append(st.pages, st.current) ELSE st.pages
            IN IF Len(out) > 0 THEN out ELSE <<text>>

(***************************************************************************)
(* Genre tags: GENRES, GENRE_TAG_REGEX, extractGenreFromText,              *)
(* stripGenreTag, applyGenreTag, deriveGenre                               *)
(***************************************************************************)
UpperCase == <<"A", "B", "C", "D", "E", "F", "G", "H", "I", "J", "K", "L", "M", "N", "O", "P", "Q", "R", "S", "T", "U", "V", "W", "X", "Y", "Z">>
LowerCase == <<"a", "b", "c", "d", "e", "f", "g", "h", "i", "j", "k", "l", "m", "n", "o", "p", "q", "r", "s", "t", "u", "v", "w", "x", "y", "z">>

\* The letters [a-zA-Z] of GENRE_TAG_REGEX.
Letters == {UpperCase[i] : i \in 1..Len(UpperCase)} \cup {LowerCase[i] : i \in 1..Len(LowerCase)}

IsLetter(c) == c \in Letters

\* The lower-case letter of each upper-case letter.
LowerOf ==
    [c \in {UpperCase[i] : i \in 1..Len(UpperCase)} |->
        LowerCase[CHOOSE i \in 1..Len(UpperCase) : UpperCase[i] = c]]

toLowerChar(c) == IF c \in DOMAIN LowerOf THEN LowerOf[c] ELSE c

\* String.prototype.toLowerCase
toLowerCase(s) == [i \in 1..Len(s) |-> toLowerChar(s[i])]

\* String.prototype.includes
includes(s, sub) == \E i \in 1..(Len(s) - Len(sub) + 1) : SubSeq(s, i, i + Len(sub) - 1) = sub

\* The genre names, in the order of the GENRES array.
GENRES == <<"All", "Adventure", "Fantasy", "History", "Science", "Mystery", "Horror", "Poetry", "Biography", "Misc">>

\* The characters of each genre name.
Spelling ==
    [All |-> <<"A", "l", "l">>,
     Adventure |-> <<"A", "d", "v", "e", "n", "t", "u", "r", "e">>,
     Fantasy |-> <<"F", "a", "n", "t", "a", "s", "y">>,
     History |-> <<"H", "i", "s", "t", "o", "r", "y">>,
     Science |-> <<"S", "c", "i", "e", "n", "c", "e">>,
     Mystery |-> <<"M", "y", "s", "t", "e", "r", "y">>,
     Horror |-> <<"H", "o", "r", "r", "o", "r">>,
     Poetry |-> <<"P", "o", "e", "t", "r", "y">>,
     Biography |-> <<"B", "i", "o", "g", "r", "a", "p", "h", "y">>,
     Misc |-> <<"M", "i", "s", "c">>]

\* The value null.
Null == "null"

\* The result of a match that failed.
NoMatch == [start |-> 0, end |-> 0, word |-> EmptyStr]

\* The literal start of GENRE_TAG_REGEX, matched without regard to case.
TagOpen == <<"[", "g", "e", "n", "r", "e", ":">>

\* GENRE_TAG_REGEX = /\[genre:\s*([a-zA-Z]+)\]/i matched at position i of s: the
\* literal "[genre:", a run of white space, a non-empty run of letters (the
\* captured word) and "]". Both runs are maximal: a white-space character is no
\* letter and a letter is no "]", so giving characters back finds no other match.
tagMatchAt(s, i) ==
    LET ws == i + Len(TagOpen)
        word == CHOOSE j \in ws..(Len(s) + 1) :
                    (j > Len(s) \/ s[j] \notin WhiteSpace) /\ \A k \in ws..(j - 1) : s[k] \in WhiteSpace
        close == CHOOSE j \in word..(Len(s) + 1) :
                    (j > Len(s) \/ ~IsLetter(s[j])) /\ \A k \in word..(j - 1) : IsLetter(s[k])
    IN IF /\ i + Len(TagOpen) - 1 <= Len(s)
          /\ toLowerCase(SubSeq(s, i, i + Len(TagOpen) - 1)) = TagOpen
          /\ close > word
          /\ close <= Len(s)
          /\ s[close] = "]"
       THEN [start |-> i, end |-> close, word |-> SubSeq(s, word, close - 1)]
       ELSE NoMatch

\* text.match(GENRE_TAG_REGEX): the leftmost match, or NoMatch.
tagMatch(s) ==
    LET starts == {i \in 1..Len(s) : s[i] = "[" /\ tagMatchAt(s, i) # NoMatch}
    IN IF starts = {} THEN NoMatch
       ELSE tagMatchAt(s, CHOOSE i \in starts : \A j \in starts : i <= j)

\* GENRES.find((x) => x.toLowerCase() === g)
findGenre(g) ==
    IF \E i \in 1..Len(GENRES) : toLowerCase(Spelling[GENRES[i]]) = g
    THEN GENRES[CHOOSE i \in 1..Len(GENRES) :
                    /\ toLowerCase(Spelling[GENRES[i]]) = g
                    /\ \A j \in 1..(i - 1) : toLowerCase(Spelling[GENRES[j]]) # g]
    ELSE Null

\* extractGenreFromText without the test `found !== "All"`.
extractGenreFromTextWithAll(text) ==
    LET m == tagMatch(text)
    IN IF m = NoMatch THEN Null ELSE findGenre(toLowerCase(m.word))

extractGenreFromText(text) ==
    LET m == tagMatch(text)
    IN IF m = NoMatch THEN Null
       ELSE LET found == findGenre(toLowerCase(m.word))
            IN IF found # Null /\ found # "All" THEN found ELSE Null

\* text.replace(GENRE_TAG_REGEX, ""): the leftmost match is cut out.
removeTag(text) ==
    LET m == tagMatch(text)
    IN IF m = NoMatch THEN text
       ELSE SubSeq(text, 1, m.start - 1) \o SubSeq(text, m.end + 1, Len(text))

\* s.replace(/^\s*\n/, ""): the leading white space up to and including its last
\* line break is cut out.
removeLeadingBlankLines(s) ==
    LET lead == firstNonSpace(s) - 1
    IN IF \E j \in 1..lead : s[j] = NL
       THEN SubSeq(s, 1 + (CHOOSE j \in 1..lead : s[j] = NL /\ \A k \in (j + 1)..lead : s[k] # NL),
                   Len(s))
       ELSE s

\* stripGenreTag that only cuts the tag out, keeping the white space after it.
stripGenreTagOnly(text) == removeTag(text)

stripGenreTag(text) == trimStart(removeLeadingBlankLines(removeTag(text)))

\* applyGenreTag without the test `genre !== "Misc"`: a tag for every genre.
applyGenreTagAlways(s, g) ==
    LET clean == stripGenreTag(s)
        tag == TagOpen \o <<SP>> \o Spelling[g] \o <<"]", NL>>
    IN trimEnd(tag \o clean)

\* applyGenreTag without the call of stripGenreTag: the tag goes before the
\* summary as it is.
applyGenreTagUnstripped(s, g) ==
    LET tag == IF g # "Misc" THEN TagOpen \o <<SP>> \o Spelling[g] \o <<"]", NL>> ELSE EmptyStr
    IN trimEnd(tag \o s)

applyGenreTag(s, g) ==
    LET clean == stripGenreTag(s)
        tag == IF g # "Misc" THEN TagOpen \o <<SP>> \o Spelling[g] \o <<"]", NL>> ELSE EmptyStr
    IN trimEnd(tag \o clean)

\* The keyword tests of deriveGenre, in the order of its `if` statements.
keywordGenre(source) ==
    IF includes(source, <<"a", "d", "v", "e", "n", "t", "u", "r", "e">>) THEN "Adventure"
    ELSE IF includes(source, <<"f", "a", "n", "t", "a", "s", "y">>) THEN "Fantasy"
    ELSE IF includes(source, <<"h", "i", "s", "t", "o", "r", "y">>) THEN "History"
    ELSE IF includes(source, <<"s", "c", "i", "e", "n", "c", "e">>) THEN "Science"
    ELSE IF includes(source, <<"m", "y", "s", "t", "e", "r", "y">>) THEN "Mystery"
    ELSE IF includes(source, <<"h", "o", "r", "r", "o", "r">>) THEN "Horror"
    ELSE IF includes(source, <<"p", "o", "e", "m">>) \/ includes(source, <<"p", "o", "e", "t", "r", "y">>) THEN "Poetry"
    ELSE IF includes(source, <<"b", "i", "o", "g", "r", "a", "p", "h", "y">>) \/ includes(source, <<"m", "e", "m", "o", "i", "r">>) THEN "Biography"
    ELSE "Misc"

\* deriveGenre that looks for a tag in the content before the summary.
deriveGenreContentFirst(s, c) ==
    LET inContent == extractGenreFromText(c)
        tagged == IF inContent # Null THEN inContent ELSE extractGenreFromText(s)
    IN IF tagged # Null THEN tagged
       ELSE keywordGenre(toLowerCase(s \o <<NL>> \o c))

\* deriveGenre that tests the keyword "poem" before the keyword "mystery".
deriveGenrePoemFirst(s, c) ==
    LET inSummary == extractGenreFromText(s)
        tagged == IF inSummary # Null THEN inSummary ELSE extractGenreFromText(c)
        source == toLowerCase(s \o <<NL>> \o c)
    IN IF tagged # Null THEN tagged
       ELSE IF includes(source, <<"p", "o", "e", "m">>) THEN "Poetry"
       ELSE keywordGenre(source)

deriveGenre(s, c) ==
    LET inSummary == extractGenreFromText(s)
        tagged == IF inSummary # Null THEN inSummary ELSE extractGenreFromText(c)
    IN IF tagged # Null THEN tagged
       ELSE keywordGenre(toLowerCase(s \o <<NL>> \o c))

(***************************************************************************)
(* Specification of the paginator: the reader calls paginate on a content  *)
(* string with a page budget.                                              *)
(***************************************************************************)
NoResult == <<"none">>

\* The Archive component's state after construction (its useState initial values).
FiltersIdle ==
    /\ books = << >>
    /\ favorites = {}
    /\ searchQuery = EmptyStr
    /\ debouncedQuery = EmptyStr
    /\ selectedGenre = "All"
    /\ sortBy = "recent"
    /\ onlyFavorites = FALSE

\* No timer is pending.
NoTimer == [value |-> EmptyStr, remaining |-> -1]

\* localStorage.getItem gives null: no item under the key.
NoItem == [json |-> "none", items |-> << >>]

ArchiveIdle ==
    /\ searchTimer = NoTimer
    /\ heldMs = 0
    /\ storedFavorites = NoItem

\* undefined and null, as values of a document's created_by and of user?.id.
Undefined == "undefined"
NullValue == "null"

\* No session user: user is null, and user?.id and user?.role are undefined.
NoUser == [id |-> Undefined, username |-> EmptyStr, role |-> Undefined]

\* No document is open: expandedBook is null.
NoBook ==
    [id |-> 0, name |-> EmptyStr, author |-> EmptyStr, summary |-> EmptyStr,
     content_md |-> EmptyStr, created_at |-> EmptyStr, created_by |-> Undefined]

\* The store has not replied yet.
NoReply == [kind |-> "none", status |-> 0, message |-> "", data |-> << >>]

\* No request is in flight.
NoRequest == [op |-> "none", book |-> NoBook, reply |-> NoReply]

\* No toast has been raised.
NoNotice == [title |-> "", description |-> ""]

StoreIdle ==
    /\ supabase = "client"
    /\ user = NoUser
    /\ expandedBook = NoBook
    /\ isEditing = FALSE
    /\ editDraft = [name |-> EmptyStr, summary |-> EmptyStr, content_md |-> EmptyStr]
    /\ editGenre = "Misc"
    /\ addForm = [open |-> FALSE, title |-> EmptyStr, content |-> EmptyStr, newGenre |-> "Misc"]
    /\ pending = NoRequest
    /\ notice = NoNotice

\* The AuthProvider is settled with nobody signed in; no time is counted.
AuthIdle ==
    /\ loading = FALSE
    /\ session = "none"
    /\ storedTs = 0
    /\ now = 0
    /\ timers = {}
    /\ calls = {}
    /\ authError = ""
    /\ loginAt = 0
    /\ loggedOut = FALSE
    /\ expired = FALSE

\* No draft is stored under a key.
NoDraft ==
    [name |-> EmptyStr, summary |-> EmptyStr, content_md |-> EmptyStr, genre |-> "none",
     origin |-> 0]

\* No draft of the add form is stored, no timer of its autosave is pending.
NoAddDraft == [title |-> EmptyStr, content |-> EmptyStr, genre |-> "none"]

\* The ids of the documents.
BookIds == 1..4

\* The reader is on its first page, the URL has no parameter, no draft is stored;
\* the table of the store is empty.
ReaderIdle ==
    /\ urlBook = 0
    /\ pageIndex = 0
    /\ storedDrafts = [id \in BookIds |-> NoDraft]
    /\ draftOf = 0
    /\ storedAddDraft = NoAddDraft
    /\ addTimer = NoAddDraft
    /\ unhandled = FALSE

AppIdle ==
    /\ FiltersIdle
    /\ ArchiveIdle
    /\ StoreIdle
    /\ AuthIdle
    /\ ReaderIdle
    /\ table = << >>
    /\ loadingBooks = TRUE

GenreIdle ==
    /\ summary = EmptyStr
    /\ genre = "Misc"
    /\ derived = Null
    /\ taggedSummary = NoResult
    /\ stripped = NoResult

PaginateInit ==
    /\ pc = "input"
    /\ AppIdle
    /\ content \in StringsUpTo(PlainChars, MaxLen) \cup StringsUpTo(MixedChars, MaxMixedLen)
    /\ approxCharsPerPage \in 1..MaxBudget
    /\ pages = NoResult
    /\ GenreIdle

CallPaginate ==
    /\ pc = "input"
    /\ pages' = paginate(content, approxCharsPerPage)
    /\ pc' = "done"
    /\ UNCHANGED <<content, approxCharsPerPage, summary, genre, derived, taggedSummary, stripped>>
    /\ UNCHANGED appVars

PaginateNext == CallPaginate

PaginateSpec == PaginateInit /\ [][PaginateNext]_vars

(***************************************************************************)
(* Specifications of the genre helpers: a book's summary and content are   *)
(* classified (GenreSpec); a summary is tagged with a genre and the tag is *)
(* stripped again (TagSpec).                                               *)
(***************************************************************************)

\* Bound of the summaries: the largest number of parts a summary is made of.
MaxParts == 2

\* The parts the texts are made of: tags (recognised, in other case and without
\* white space, the wildcard, the catch-all), pieces of tags, keywords and pieces
\* of keywords, white space and other text.
SummaryParts ==
    { <<"[", "g", "e", "n", "r", "e", ":", " ", "H", "o", "r", "r", "o", "r", "]">>,
      <<"[", "G", "E", "N", "R", "E", ":", "f", "a", "n", "t", "a", "s", "y", "]">>,
      <<"[", "g", "e", "n", "r", "e", ":", " ", "A", "l", "l", "]">>,
      <<"[", "g", "e", "n", "r", "e", ":", " ", "M", "i", "s", "c", "]">>,
      <<"[", "g", "e", "n", "r", "e", ":">>,
      <<"P", "o", "e", "t", "r", "y">>,
      <<"]">>,
      <<"m", "y", "s", "t", "e", "r", "y">>,
      <<"p", "o">>,
      <<"e", "m">>,
      <<" ">>,
      <<"\n">>,
      <<"x", ".">> }

ContentParts ==
    { <<"[", "g", "e", "n", "r", "e", ":", " ", "H", "o", "r", "r", "o", "r", "]">>,
      <<"[", "G", "e", "n", "r", "e", ":", "\n", " ", "A", "l", "l", "]">>,
      <<"F", "a", "n", "t", "a", "s", "y">>,
      <<"e", "m">>,
      <<"m", "y", "s", "t", "e", "r", "y">>,
      <<"\n">> }

\* The texts made of at most n parts of `parts`.
RECURSIVE TextsOf(_, _)
TextsOf(parts, n) ==
    IF n = 0 THEN {EmptyStr}
    ELSE LET shorter == TextsOf(parts, n - 1)
         IN shorter \cup {t \o part : t \in shorter, part \in parts}

\* The contents: no part, one part, or one part after another.
ContentTexts ==
    {EmptyStr} \cup ContentParts \cup {a \o b : a \in ContentParts, b \in ContentParts}

PaginateIdle ==
    /\ approxCharsPerPage = DefaultBudget
    /\ pages = NoResult

GenreInit ==
    /\ pc = "input"
    /\ AppIdle
    /\ summary \in TextsOf(SummaryParts, MaxParts)
    /\ content \in ContentTexts
    /\ genre = "Misc"
    /\ derived = Null
    /\ taggedSummary = NoResult
    /\ stripped = NoResult
    /\ PaginateIdle

CallDeriveGenre ==
    /\ pc = "input"
    /\ derived' = deriveGenre(summary, content)
    /\ pc' = "done"
    /\ UNCHANGED <<content, approxCharsPerPage, pages, summary, genre, taggedSummary, stripped>>
    /\ UNCHANGED appVars

GenreNext == CallDeriveGenre

GenreSpec == GenreInit /\ [][GenreNext]_vars

\* Summaries with one tag inside the brackets of what would be another: the
\* opening of a tag, a whole tag, a word and the closing bracket.
NestedTagTexts ==
    {TagOpen \o inner \o word \o <<"]">> :
        inner \in {p \in SummaryParts : tagMatch(p) # NoMatch},
        word \in {<<"P", "o", "e", "t", "r", "y">>, <<" ", "m", "y", "s", "t", "e", "r", "y">>, <<" ">>}}

TagInit ==
    /\ pc = "input"
    /\ AppIdle
    /\ summary \in TextsOf(SummaryParts, MaxParts) \cup NestedTagTexts
    /\ content = EmptyStr
    /\ genre = "Misc"
    /\ derived = Null
    /\ taggedSummary = NoResult
    /\ stripped = NoResult
    /\ PaginateIdle

CallApplyGenreTag ==
    /\ pc = "input"
    /\ \E g \in {GENRES[i] : i \in 1..Len(GENRES)} :
           /\ genre' = g
           /\ taggedSummary' = applyGenreTag(summary, g)
    /\ pc' = "tagged"
    /\ UNCHANGED <<content, approxCharsPerPage, pages, summary, derived, stripped>>
    /\ UNCHANGED appVars

CallStripGenreTag ==
    /\ pc = "tagged"
    /\ stripped' = stripGenreTag(taggedSummary)
    /\ pc' = "done"
    /\ UNCHANGED <<content, approxCharsPerPage, pages, summary, genre, derived, taggedSummary>>
    /\ UNCHANGED appVars

TagNext == CallApplyGenreTag \/ CallStripGenreTag

TagSpec == TagInit /\ [][TagNext]_vars

(***************************************************************************)
(* Specification of the editor's use of the helpers: saveEdit writes        *)
(* applyGenreTag(summary, genre); the cards and the reader then show        *)
(* deriveGenre of what was written and of the content, and the next save    *)
(* applies the tag to what tryEdit has stripped, or to the summary again.   *)
(***************************************************************************)

\* The contents: none, one with a tag, one with a keyword.
EditorContents ==
    { EmptyStr,
      <<"[", "g", "e", "n", "r", "e", ":", " ", "H", "o", "r", "r", "o", "r", "]">>,
      <<"F", "a", "n", "t", "a", "s", "y">> }

EditorInit ==
    /\ pc = "input"
    /\ AppIdle
    /\ summary \in TextsOf(SummaryParts, MaxParts) \cup NestedTagTexts
    /\ content \in EditorContents
    /\ genre = "Misc"
    /\ derived = Null
    /\ taggedSummary = NoResult
    /\ stripped = NoResult
    /\ PaginateIdle

\* applyGenreTag is applied, with the same genre, to what it has returned.
CallApplyGenreTagAgain ==
    /\ pc = "tagged"
    /\ taggedSummary' = applyGenreTag(taggedSummary, genre)
    /\ pc' = "retagged"
    /\ UNCHANGED <<content, approxCharsPerPage, pages, summary, genre, derived, stripped>>
    /\ UNCHANGED appVars

\* deriveGenre is applied to the tagged summary and the content.
CallDeriveGenreOfTagged ==
    /\ pc = "tagged"
    /\ derived' = deriveGenre(taggedSummary, content)
    /\ pc' = "derived"
    /\ UNCHANGED <<content, approxCharsPerPage, pages, summary, genre, taggedSummary, stripped>>
    /\ UNCHANGED appVars

EditorNext == CallApplyGenreTag \/ CallApplyGenreTagAgain \/ CallDeriveGenreOfTagged

EditorSpec == EditorInit /\ [][EditorNext]_vars

(***************************************************************************)
(* Specification of the end-to-end example: paginate with its default      *)
(* budget on single-paragraph texts of 3000 characters.                    *)
(***************************************************************************)

\* Length of the example's text: two full pages and 200 characters, 3000.
E2ELength == 2 * DefaultBudget + 200

\* Word lengths and word separators of the example texts.
E2EWordLens == {1, 4, 9, 601, 602, 1400, 1401, E2ELength}
E2ESeparators == {<<SP>>, <<SP, SP>>, <<NL>>}

\* The text of E2ELength characters that repeats: a word of l1 letters "a", the
\* separator, a word of l2 letters "b", the separator.
PeriodicText(l1, l2, sep) ==
    LET period == l1 + Len(sep) + l2 + Len(sep)
    IN [i \in 1..E2ELength |->
           LET r == (i - 1) % period
           IN IF r < l1 THEN "a"
              ELSE IF r < l1 + Len(sep) THEN sep[r - l1 + 1]
              ELSE IF r < l1 + Len(sep) + l2 THEN "b"
              ELSE sep[r - l1 - Len(sep) - l2 + 1]]

\* The text of E2ELength characters whose words, of 195, 602, 602, 195, 602, 196
\* and 602 letters, are separated by single spaces.
UnevenText ==
    [i \in 1..E2ELength |-> IF i \in {196, 799, 1402, 1598, 2201, 2398} THEN SP ELSE "a"]

E2ETexts ==
    {PeriodicText(l1, l2, sep) : l1 \in E2EWordLens, l2 \in E2EWordLens, sep \in E2ESeparators}
        \cup {UnevenText}

E2EInit ==
    /\ pc = "input"
    /\ AppIdle
    /\ content \in E2ETexts
    /\ approxCharsPerPage = DefaultBudget
    /\ pages = NoResult
    /\ GenreIdle

E2ESpec == E2EInit /\ [][PaginateNext]_vars

(***************************************************************************)
(* The archive view's filter and sort pipeline: filteredBooks and          *)
(* formattedBooks are memoized values, functions of the component's state. *)
(***************************************************************************)

\* A column the store holds no value for (null): src/app/books/page.tsx reads the
\* same table with `summary: string | null`.
NullText == <<"null">>

\* `t || ""`
orEmpty(t) == IF t = NullText THEN EmptyStr ELSE t

\* `${t}` in a template literal: null is written as the word null.
templateText(t) == IF t = NullText THEN <<"n", "u", "l", "l">> ELSE t

\* Set.prototype.has, a Set being the sequence of its members in insertion order.
has(set, id) == \E i \in 1..Len(set) : set[i] = id

\* `${b.name}\n${b.author}\n${b.summary}\n${b.content_md}`.toLowerCase()
hay(b) ==
    toLowerCase(templateText(b.name) \o <<NL>> \o templateText(b.author) \o <<NL>>
                    \o templateText(b.summary) \o <<NL>> \o templateText(b.content_md))

\* filteredBooks without the favorites-only test.
filteredBooksAllFavorites ==
    LET q == toLowerCase(trim(debouncedQuery))
        keep(b) ==
            LET g == deriveGenre(orEmpty(b.summary), orEmpty(b.content_md))
                genreOk == selectedGenre = "All" \/ g = selectedGenre
            IN IF q = EmptyStr THEN genreOk ELSE genreOk /\ includes(hay(b), q)
    IN SelectSeq(books, keep)

filteredBooks ==
    LET q == toLowerCase(trim(debouncedQuery))
        keep(b) ==
            IF onlyFavorites /\ ~has(favorites, b.id) THEN FALSE
            ELSE LET g == deriveGenre(orEmpty(b.summary), orEmpty(b.content_md))
                     genreOk == selectedGenre = "All" \/ g = selectedGenre
                 IN IF q = EmptyStr THEN genreOk ELSE genreOk /\ includes(hay(b), q)
    IN SelectSeq(books, keep)

\* The digits, in collation order.
Digits == <<"0", "1", "2", "3", "4", "5", "6", "7", "8", "9">>

\* The collation weight of a character: the digits come before the letters, the
\* letters are in alphabetical order whatever their case.
primaryWeight(c) ==
    IF \E i \in 1..Len(Digits) : Digits[i] = c
    THEN CHOOSE i \in 1..Len(Digits) : Digits[i] = c
    ELSE IF IsLetter(c)
         THEN Len(Digits) + (CHOOSE i \in 1..Len(LowerCase) : LowerCase[i] = toLowerChar(c))
         ELSE 0

\* Among characters of one primary weight a lower-case letter comes first.
caseWeight(c) == IF c \in DOMAIN LowerOf THEN 1 ELSE 0

\* The comparison of two sequences of weights, position by position: -1, 0 or 1.
compareWeights(ka, kb) ==
    LET both == {i \in 1..Len(ka) : i <= Len(kb)}
        diff == {i \in both : ka[i] # kb[i]}
    IN IF diff # {}
       THEN LET i == CHOOSE j \in diff : \A k \in diff : j <= k
            IN IF ka[i] < kb[i] THEN -1 ELSE 1
       ELSE IF Len(ka) < Len(kb) THEN -1 ELSE IF Len(ka) > Len(kb) THEN 1 ELSE 0

\* String.prototype.localeCompare on strings of letters and digits: alphabetical
\* order first, the case of the letters only between strings that are otherwise equal.
localeCompare(a, b) ==
    LET byLetter == compareWeights([i \in 1..Len(a) |-> primaryWeight(a[i])],
                                   [i \in 1..Len(b) |-> primaryWeight(b[i])])
    IN IF byLetter # 0 THEN byLetter
       ELSE compareWeights([i \in 1..Len(a) |-> caseWeight(a[i])],
                           [i \in 1..Len(b) |-> caseWeight(b[i])])

\* The pairs of members of a list, the arguments of a comparator.
Pairs(list) == {list[i] : i \in 1..Len(list)} \X {list[i] : i \in 1..Len(list)}

\* Array.prototype.sort with comparator cmp (a function of the pair <<a, b>>),
\* which is stable: an element goes after the elements that compare smaller and
\* after the equal ones before it.
sort(list, cmp) ==
    LET place(i) ==
            1 + Cardinality({j \in 1..Len(list) :
                    \/ cmp[<<list[j], list[i]>>] < 0
                    \/ cmp[<<list[j], list[i]>>] = 0 /\ j < i})
    IN [k \in 1..Len(list) |-> list[CHOOSE i \in 1..Len(list) : place(i) = k]]

\* Number(favorites.has(b.id))
favoriteNumber(b) == IF has(favorites, b.id) THEN 1 ELSE 0

\* formattedBooks without the second sort, the one that pins the favorites.
formattedBooksUnpinned ==
    IF sortBy = "title" THEN sort(filteredBooks, [p \in Pairs(filteredBooks) |-> localeCompare(p[1].name, p[2].name)])
    ELSE IF sortBy = "author" THEN sort(filteredBooks, [p \in Pairs(filteredBooks) |-> localeCompare(p[1].author, p[2].author)])
    ELSE sort(filteredBooks, [p \in Pairs(filteredBooks) |-> localeCompare(p[2].created_at, p[1].created_at)])

formattedBooks ==
    LET list ==
            IF sortBy = "title" THEN sort(filteredBooks, [p \in Pairs(filteredBooks) |-> localeCompare(p[1].name, p[2].name)])
            ELSE IF sortBy = "author" THEN sort(filteredBooks, [p \in Pairs(filteredBooks) |-> localeCompare(p[1].author, p[2].author)])
            ELSE sort(filteredBooks, [p \in Pairs(filteredBooks) |-> localeCompare(p[2].created_at, p[1].created_at)])
    IN sort(list, [p \in Pairs(list) |-> favoriteNumber(p[2]) - favoriteNumber(p[1])])

\* Bound of the pipeline's inputs: the largest number of loaded documents.
MaxBooks == 3

\* The documents of the store: two tagged Fantasy (the favorite "Zeta" and the
\* non-favorite "Alpha" of the specification's example among them), one without a
\* summary, two created at the same time, titles and authors that differ in case.
Catalogue ==
    { [id |-> 1, name |-> <<"Z", "e", "t", "a">>, author |-> <<"a", "n", "n">>,
       summary |-> <<"[", "g", "e", "n", "r", "e", ":", " ", "F", "a", "n", "t", "a", "s", "y", "]">>,
       content_md |-> <<"x", ".">>, created_at |-> <<"0", "1">>],
      [id |-> 2, name |-> <<"A", "l", "p", "h", "a">>, author |-> <<"B", "o", "b">>,
       summary |-> <<"[", "g", "e", "n", "r", "e", ":", " ", "F", "a", "n", "t", "a", "s", "y", "]">>,
       content_md |-> <<"x", ".">>, created_at |-> <<"0", "3">>],
      [id |-> 3, name |-> <<"a", "l", "p", "h", "a">>, author |-> <<"A", "n", "n">>,
       summary |-> NullText,
       content_md |-> <<"a", " ", "M", "y", "s", "t", "e", "r", "y">>, created_at |-> <<"0", "2">>],
      [id |-> 4, name |-> <<"B", "e", "t", "a">>, author |-> <<"b", "o", "b">>,
       summary |-> EmptyStr,
       content_md |-> <<"Z", "e", "t", "a">>, created_at |-> <<"0", "2">>] }

\* The lists of at most n different documents of the store.
RECURSIVE BookLists(_)
BookLists(n) ==
    IF n = 0 THEN {<< >>}
    ELSE LET shorter == BookLists(n - 1)
         IN shorter \cup {Append(l, b) : l \in shorter, b \in Catalogue}

\* The ids a favorite set is made of and the favorite sets loaded from storage.
FavoriteIds == 1..3
LoadedFavorites == {<< >>, <<1>>, <<2>>, <<3>>, <<1, 2>>, <<3, 1>>, <<2, 3>>, <<1, 2, 3>>}

\* The queries: empty, blank, a title in other case with white space around it,
\* the word null, an author, the end of a title with the start of an author.
Queries ==
    { EmptyStr, <<" ">>, <<"Z", "E", "T", "A", " ">>, <<"n", "u", "l", "l">>,
      <<"b", "o", "b">>, <<"t", "a", "\n", "a", "n">> }

PipelineInit ==
    /\ pc = "idle"
    /\ content = EmptyStr
    /\ PaginateIdle
    /\ GenreIdle
    /\ books \in {l \in BookLists(MaxBooks) : \A i, j \in 1..Len(l) : l[i].id = l[j].id => i = j}
    /\ favorites \in LoadedFavorites
    /\ debouncedQuery \in Queries
    /\ searchQuery = debouncedQuery
    /\ selectedGenre = "All"
    /\ sortBy = "recent"
    /\ onlyFavorites = FALSE
    /\ searchTimer = NoTimer
    /\ heldMs = 0
    /\ storedFavorites = [json |-> "array", items |-> favorites]
    /\ StoreIdle
    /\ AuthIdle
    /\ ReaderIdle
    /\ table = << >>
    /\ loadingBooks = FALSE

\* onClick={() => setSelectedGenre(g)}
SelectGenre ==
    /\ \E g \in {GENRES[i] : i \in 1..Len(GENRES)} : selectedGenre' = g
    /\ UNCHANGED <<books, favorites, searchQuery, debouncedQuery, sortBy, onlyFavorites>>
    /\ UNCHANGED <<archiveVars, helperVars, storeVars, authVars, readerVars, formVars>>

\* onValueChange={(v) => setSortBy(v as any)}
SelectSort ==
    /\ \E v \in {"recent", "title", "author"} : sortBy' = v
    /\ UNCHANGED <<books, favorites, searchQuery, debouncedQuery, selectedGenre, onlyFavorites>>
    /\ UNCHANGED <<archiveVars, helperVars, storeVars, authVars, readerVars, formVars>>

\* onClick={() => setOnlyFavorites((s) => !s)}
ToggleOnlyFavorites ==
    /\ onlyFavorites' = ~onlyFavorites
    /\ UNCHANGED <<books, favorites, searchQuery, debouncedQuery, selectedGenre, sortBy>>
    /\ UNCHANGED <<archiveVars, helperVars, storeVars, authVars, readerVars, formVars>>

PipelineNext == SelectGenre \/ SelectSort \/ ToggleOnlyFavorites

PipelineSpec == PipelineInit /\ [][PipelineNext]_vars

(***************************************************************************)
(* The archive view's search input, debounce timer and favorite set.       *)
(* Time advances in steps of half the debounce delay.                      *)
(***************************************************************************)

\* The delay of the debounce effect's setTimeout, in milliseconds.
DebounceMs == 200

TickMs == DebounceMs \div 2

\* What the search input is given: nothing, one character, two characters.
TypedQueries == {EmptyStr, <<"z">>, <<"z", "e">>}

\* JSON.stringify(array) as the item written, JSON.parse of the item read.
jsonArray(items) == [json |-> "array", items |-> items]

\* An item that JSON.parse rejects.
BadItem == [json |-> "invalid", items |-> << >>]

\* new Set(array): the different members of the array, each where it is first.
RECURSIVE newSet(_)
newSet(items) ==
    IF items = << >> THEN << >>
    ELSE LET front == newSet(SubSeq(items, 1, Len(items) - 1))
             last == items[Len(items)]
         IN IF has(front, last) THEN front ELSE Append(front, last)

\* The favorites load effect: the Set of the array under "favorites"; the
\* favorite set stays empty if there is no item or JSON.parse throws.
loadFavorites(raw) == IF raw.json = "array" THEN newSet(raw.items) ELSE << >>

\* The items found in storage when the component is mounted.
StoredItems == {NoItem, BadItem, jsonArray(<< >>), jsonArray(<<2>>), jsonArray(<<3, 1>>), jsonArray(<<1, 1>>)}

\* The component after its first render and its mount effects: the favorites
\* are loaded and the debounce effect has set its first timer.
ArchiveInit ==
    /\ pc = "idle"
    /\ content = EmptyStr
    /\ PaginateIdle
    /\ GenreIdle
    /\ books \in {l \in BookLists(2) : Len(l) = 2 /\ l[1].id = 1 /\ l[2].id = 2}
    /\ storedFavorites \in StoredItems
    /\ favorites = loadFavorites(storedFavorites)
    /\ searchQuery = EmptyStr
    /\ debouncedQuery = EmptyStr
    /\ selectedGenre = "All"
    /\ sortBy = "recent"
    /\ onlyFavorites = FALSE
    /\ searchTimer = [value |-> EmptyStr, remaining |-> DebounceMs]
    /\ heldMs = 0
    /\ StoreIdle
    /\ AuthIdle
    /\ ReaderIdle
    /\ table = << >>
    /\ loadingBooks = FALSE

\* onChange={(e) => setSearchQuery(e.target.value)} with a new value; the
\* debounce effect runs again: its cleanup clears the timer, a new one is set.
TypeQuery(v) ==
    /\ v # searchQuery
    /\ searchQuery' = v
    /\ searchTimer' = [value |-> v, remaining |-> DebounceMs]
    /\ heldMs' = 0
    /\ UNCHANGED <<books, favorites, debouncedQuery, selectedGenre, sortBy, onlyFavorites, storedFavorites>>
    /\ UNCHANGED <<helperVars, storeVars, authVars, readerVars, formVars>>

\* The timeout callback with no regard for the delay: setTimeout(..., 0).
TimerFiresAtOnce ==
    /\ searchTimer # NoTimer
    /\ debouncedQuery' = searchTimer.value
    /\ searchTimer' = NoTimer
    /\ UNCHANGED <<books, favorites, searchQuery, selectedGenre, sortBy, onlyFavorites, heldMs, storedFavorites>>
    /\ UNCHANGED <<helperVars, storeVars, authVars, readerVars, formVars>>

\* The timeout callback, () => setDebouncedQuery(searchQuery), run once the
\* delay has passed.
TimerFires ==
    /\ searchTimer # NoTimer
    /\ searchTimer.remaining = 0
    /\ debouncedQuery' = searchTimer.value
    /\ searchTimer' = NoTimer
    /\ UNCHANGED <<books, favorites, searchQuery, selectedGenre, sortBy, onlyFavorites, heldMs, storedFavorites>>
    /\ UNCHANGED <<helperVars, storeVars, authVars, readerVars, formVars>>

\* Time passes.
Tick ==
    /\ heldMs' = IF heldMs + TickMs > DebounceMs THEN DebounceMs ELSE heldMs + TickMs
    /\ searchTimer' =
           IF searchTimer = NoTimer THEN NoTimer
           ELSE [searchTimer EXCEPT !.remaining = IF @ > TickMs THEN @ - TickMs ELSE 0]
    /\ UNCHANGED <<filterVars, storedFavorites>>
    /\ UNCHANGED <<helperVars, storeVars, authVars, readerVars, formVars>>

\* clearFilters; the debounce effect runs again if the input's value changed.
clearFilters ==
    /\ searchQuery' = EmptyStr
    /\ debouncedQuery' = EmptyStr
    /\ selectedGenre' = "All"
    /\ onlyFavorites' = FALSE
    /\ sortBy' = "recent"
    /\ IF searchQuery # EmptyStr
       THEN searchTimer' = [value |-> EmptyStr, remaining |-> DebounceMs] /\ heldMs' = 0
       ELSE UNCHANGED <<searchTimer, heldMs>>
    /\ UNCHANGED <<books, favorites, storedFavorites>>
    /\ UNCHANGED <<helperVars, storeVars, authVars, readerVars, formVars>>

\* toggleFavorite that writes the favorite set it was called on to storage.
toggleFavoriteStoresOld(id) ==
    LET next == IF has(favorites, id) THEN SelectSeq(favorites, LAMBDA x : x # id)
                ELSE Append(favorites, id)
    IN /\ favorites' = next
       /\ storedFavorites' = jsonArray(favorites)
       /\ UNCHANGED <<books, searchQuery, debouncedQuery, selectedGenre, sortBy, onlyFavorites, searchTimer, heldMs>>
       /\ UNCHANGED <<helperVars, storeVars, authVars, readerVars, formVars>>

toggleFavorite(id) ==
    LET next == IF has(favorites, id) THEN SelectSeq(favorites, LAMBDA x : x # id)
                ELSE Append(favorites, id)
    IN /\ favorites' = next
       /\ storedFavorites' = jsonArray(next)
       /\ UNCHANGED <<books, searchQuery, debouncedQuery, selectedGenre, sortBy, onlyFavorites, searchTimer, heldMs>>
       /\ UNCHANGED <<helperVars, storeVars, authVars, readerVars, formVars>>

\* The search input is given a value.
Typing == \E v \in TypedQueries : TypeQuery(v)

\* The star of a displayed document is clicked.
ClickFavorite == \E i \in 1..Len(books) : toggleFavorite(books[i].id)

ArchiveNext ==
    \/ Typing
    \/ TimerFires
    \/ Tick
    \/ clearFilters
    \/ ClickFavorite
    \/ SelectGenre
    \/ SelectSort
    \/ ToggleOnlyFavorites

ArchiveSpec == ArchiveInit /\ [][ArchiveNext]_vars

\* Time passes, and the browser runs a timeout callback that is due.
ArchiveFairSpec == ArchiveSpec /\ WF_vars(Tick) /\ WF_vars(TimerFires)

(***************************************************************************)
(* The archive view's store handlers: fetchBooks, addBook, saveEdit and    *)
(* deleteBook.  A handler runs up to its await, where its request is in    *)
(* flight; the store replies; the handler runs on from the reply.  One     *)
(* request is in flight at a time, and the user waits for the reply before *)
(* the next click or keystroke.                                            *)
(***************************************************************************)

\* The session users: an administrator, an author, a member with the author's id.
Users ==
    { NoUser,
      [id |-> "a", username |-> <<"a", "d", "a">>, role |-> "admin"],
      [id |-> "u1", username |-> <<"a", "n", "n">>, role |-> "author"],
      [id |-> "u1", username |-> <<"a", "n", "n">>, role |-> "member"] }

\* The rows of the books table: created by the author, by somebody else, by
\* nobody (null), and a row without the optional created_by.
StoreRow(id, owner) ==
    [id |-> id, name |-> <<"n">>, author |-> <<"a", "n", "n">>,
     summary |-> <<"[", "g", "e", "n", "r", "e", ":", " ", "H", "o", "r", "r", "o", "r", "]", "\n", "s">>,
     content_md |-> <<"x", ".">>, created_at |-> <<"0", "1">>, created_by |-> owner]

StoreRows == <<StoreRow(1, "u1"), StoreRow(2, "u2"), StoreRow(3, NullValue), StoreRow(4, Undefined)>>

\* The replies of the store: the result, or an error with a message and
\* possibly a status.
OkReply(data) == [kind |-> "ok", status |-> 200, message |-> "", data |-> data]

ErrorReplies ==
    { [kind |-> "error", status |-> 403, message |-> "permission denied", data |-> << >>],
      [kind |-> "error", status |-> 0, message |-> "row violates policy", data |-> << >>],
      [kind |-> "error", status |-> 0, message |-> "", data |-> << >>] }

Replies(op) ==
    ErrorReplies \cup (IF op = "select" THEN {OkReply(<< >>), OkReply(table)} ELSE {OkReply(<< >>)})

canWrite == user.role = "admin" \/ user.role = "author"
isAdmin == user.role = "admin"

\* toast({ title, description })
toast(title, description) == [title |-> title, description |-> description]

\* The request of fetchBooks once the client is known to be configured.
SelectRequest == [op |-> "select", book |-> NoBook, reply |-> NoReply]

\* The part of text before its n-th line break: text.split(/\r?\n/).slice(0, n).join("\n")
firstLines(text, n) ==
    LET breaks == {i \in 1..Len(text) : text[i] = NL}
    IN IF Cardinality(breaks) < n THEN text
       ELSE SubSeq(text, 1, (CHOOSE i \in breaks : Cardinality({j \in breaks : j <= i}) = n) - 1)

\* title.trim() || trimmedContent.split(/\r?\n/)[0].slice(0, 48) || "Untitled Book"
finalTitle(title, trimmedContent) ==
    IF trim(title) # EmptyStr THEN trim(title)
    ELSE LET first == firstLines(trimmedContent, 1)
         IN IF first # EmptyStr THEN SubSeq(first, 1, IF Len(first) < 48 THEN Len(first) ELSE 48)
            ELSE <<"U", "n", "t", "i", "t", "l", "e", "d", " ", "B", "o", "o", "k">>

\* The state after the first render and the mount effects, the AuthProvider no
\* longer loading: fetchBooks has sent the list query.
StoreInit ==
    /\ pc = "idle"
    /\ content = EmptyStr
    /\ PaginateIdle
    /\ GenreIdle
    /\ FiltersIdle
    /\ ArchiveIdle
    /\ AuthIdle
    /\ ReaderIdle
    /\ table = StoreRows
    /\ supabase = "client"
    /\ user \in Users
    /\ expandedBook = NoBook
    /\ isEditing = FALSE
    /\ editDraft = [name |-> EmptyStr, summary |-> EmptyStr, content_md |-> EmptyStr]
    /\ editGenre = "Misc"
    /\ addForm = [open |-> FALSE, title |-> EmptyStr, content |-> EmptyStr, newGenre |-> "Misc"]
    /\ loadingBooks = TRUE
    /\ pending = SelectRequest
    /\ notice = NoNotice

\* What the handlers of the store leave alone.
restOfApp == <<helperVars, filterVars, archiveVars, authVars>>

\* The same with the reader's page, the URL and the stored drafts.
restOfPage == <<restOfApp, readerVars, formVars>>

\* fetchBooks up to its await.
fetchBooks ==
    /\ pending = NoRequest
    /\ IF supabase = Null
       THEN UNCHANGED <<loadingBooks, pending>>
       ELSE loadingBooks' = TRUE /\ pending' = SelectRequest
    /\ UNCHANGED <<supabase, user, expandedBook, isEditing, editDraft, editGenre, addForm>>
    /\ notice' = NoNotice
    /\ UNCHANGED restOfPage

\* The store replies to the request in flight.
StoreReplies ==
    /\ pending # NoRequest
    /\ pending.reply = NoReply
    /\ \E r \in Replies(pending.op) : pending' = [pending EXCEPT !.reply = r]
    /\ UNCHANGED <<supabase, user, expandedBook, isEditing, editDraft, editGenre, addForm,
                   loadingBooks>>
    /\ notice' = NoNotice
    /\ UNCHANGED restOfPage

\* The effect on [expandedBook] that loads the draft stored for document b;
\* without one the edit form keeps what it holds. A stored draft remembers the
\* document its fields were filled from.
loadDraft(b) ==
    IF b # NoBook /\ storedDrafts[b.id] # NoDraft
    THEN /\ editDraft' = [name |-> storedDrafts[b.id].name,
                          summary |-> storedDrafts[b.id].summary,
                          content_md |-> storedDrafts[b.id].content_md]
         /\ editGenre' = storedDrafts[b.id].genre
         /\ draftOf' = storedDrafts[b.id].origin
    ELSE UNCHANGED <<editDraft, editGenre, draftOf>>

\* The effect on [books]: with documents loaded and a "book" parameter that names
\* one of them, that document is opened.
deepLink(list) ==
    IF Len(list) > 0 /\ urlBook # 0 /\ \E i \in 1..Len(list) : list[i].id = urlBook
    THEN LET found == list[CHOOSE i \in 1..Len(list) :
                               /\ list[i].id = urlBook
                               /\ \A j \in 1..(i - 1) : list[j].id # urlBook]
         IN expandedBook' = found /\ loadDraft(found)
    ELSE UNCHANGED <<expandedBook, editDraft, editGenre, draftOf>>

\* fetchBooks from its await: setBooks and the effect on [books], or the toast of
\* the catch block; finally setLoadingBooks(false).
fetchBooksReturns ==
    /\ pending.op = "select"
    /\ pending.reply # NoReply
    /\ IF pending.reply.kind = "ok"
       THEN /\ books' = pending.reply.data
            /\ notice' = NoNotice
            /\ deepLink(pending.reply.data)
       ELSE /\ UNCHANGED <<books, expandedBook, editDraft, editGenre, draftOf>>
            /\ notice' =
                   IF pending.reply.status = 403
                   THEN toast("Restricted", "You must be signed in to view the archive.")
                   ELSE toast("Error loading books",
                              IF pending.reply.message # "" THEN pending.reply.message
                              ELSE "Unknown error")
    /\ loadingBooks' = FALSE
    /\ pending' = NoRequest
    /\ UNCHANGED <<supabase, user, isEditing, addForm>>
    /\ UNCHANGED <<favorites, searchQuery, debouncedQuery, selectedGenre, sortBy, onlyFavorites>>
    /\ UNCHANGED <<helperVars, archiveVars, authVars, formVars, table, urlBook, pageIndex,
                   storedDrafts>>

\* The effect on [open] with the dialog open: the stored draft of the add form,
\* if there is one, fills the form.
loadAddDraft ==
    IF storedAddDraft = NoAddDraft
    THEN [addForm EXCEPT !.open = TRUE]
    ELSE [open |-> TRUE, title |-> storedAddDraft.title, content |-> storedAddDraft.content,
          newGenre |-> storedAddDraft.genre]

\* The effect on [open, title, content, newGenre]: its cleanup clears the timer
\* of the render before, and with the dialog open a timer is set that will store
\* the form as this render holds it.
autosaveTimer(form) ==
    IF form.open
    THEN [title |-> form.title, content |-> form.content, genre |-> form.newGenre]
    ELSE NoAddDraft

\* The add dialog: it is opened by its buttons, which are disabled for a user
\* who cannot write, and closed; its fields are given values.
SetOpen ==
    /\ pending = NoRequest
    /\ \E next \in BOOLEAN :
           /\ next => supabase # Null /\ canWrite
           /\ IF next = addForm.open
              THEN UNCHANGED <<addForm, addTimer>>
              ELSE /\ addForm' = IF next THEN loadAddDraft ELSE [addForm EXCEPT !.open = FALSE]
                   /\ addTimer' = autosaveTimer(addForm')
    /\ UNCHANGED <<supabase, user, expandedBook, isEditing, editDraft, editGenre, loadingBooks,
                   pending>>
    /\ notice' = NoNotice
    /\ UNCHANGED <<restOfApp, readerVars, storedAddDraft, unhandled>>

SetTitle ==
    /\ pending = NoRequest
    /\ \E v \in {EmptyStr, <<"t", " ">>} : addForm' = [addForm EXCEPT !.title = v]
    /\ addTimer' = autosaveTimer(addForm')
    /\ UNCHANGED <<supabase, user, expandedBook, isEditing, editDraft, editGenre, loadingBooks,
                   pending>>
    /\ notice' = NoNotice
    /\ UNCHANGED <<restOfApp, readerVars, storedAddDraft, unhandled>>

SetContent ==
    /\ pending = NoRequest
    /\ \E v \in {EmptyStr, <<" ">>, <<"x", ".", "\n", "y", " ">>} : addForm' = [addForm EXCEPT !.content = v]
    /\ addTimer' = autosaveTimer(addForm')
    /\ UNCHANGED <<supabase, user, expandedBook, isEditing, editDraft, editGenre, loadingBooks,
                   pending>>
    /\ notice' = NoNotice
    /\ UNCHANGED <<restOfApp, readerVars, storedAddDraft, unhandled>>

SetNewGenre ==
    /\ pending = NoRequest
    /\ \E g \in {"Misc", "Horror"} : addForm' = [addForm EXCEPT !.newGenre = g]
    /\ addTimer' = autosaveTimer(addForm')
    /\ UNCHANGED <<supabase, user, expandedBook, isEditing, editDraft, editGenre, loadingBooks,
                   pending>>
    /\ notice' = NoNotice
    /\ UNCHANGED <<restOfApp, readerVars, storedAddDraft, unhandled>>

\* addBook up to its await.
addBook ==
    LET trimmedContent == trim(addForm.content)
        summaryRaw == firstLines(trimmedContent, 5)
        row == [id |-> 0,
                name |-> finalTitle(addForm.title, trimmedContent),
                author |-> IF user.username = EmptyStr THEN <<"U", "n", "k", "n", "o", "w", "n">>
                           ELSE user.username,
                summary |-> applyGenreTag(summaryRaw, addForm.newGenre),
                content_md |-> trimmedContent,
                created_at |-> EmptyStr,
                created_by |-> user.id]
    IN /\ pending = NoRequest
       /\ IF trimmedContent = EmptyStr
          THEN notice' = toast("No content", "Paste or import your book content.") /\ UNCHANGED pending
          ELSE IF supabase = Null
          THEN /\ notice' = toast("Supabase not configured", "Cannot save without Supabase credentials.")
               /\ UNCHANGED pending
          ELSE IF ~canWrite
          THEN /\ notice' = toast("Insufficient permissions", "Only authors or admins can add books.")
               /\ UNCHANGED pending
          ELSE pending' = [op |-> "insert", book |-> row, reply |-> NoReply] /\ notice' = NoNotice
       /\ UNCHANGED <<supabase, user, expandedBook, isEditing, editDraft, editGenre, addForm, loadingBooks>>
       /\ UNCHANGED restOfPage

\* addBook from its await, but leaving the stored draft of the form.
addBookReturnsKeepingDraft ==
    /\ pending.op = "insert"
    /\ pending.reply # NoReply
    /\ IF pending.reply.kind = "error"
       THEN /\ notice' = toast("Error adding book", pending.reply.message)
            /\ pending' = NoRequest
            /\ UNCHANGED <<addForm, loadingBooks, storedAddDraft, addTimer>>
       ELSE /\ addForm' = [open |-> FALSE, title |-> EmptyStr, content |-> EmptyStr, newGenre |-> "Misc"]
            /\ UNCHANGED storedAddDraft
            /\ addTimer' = autosaveTimer(addForm')
            /\ loadingBooks' = TRUE
            /\ pending' = SelectRequest
            /\ notice' = toast("Book added", "saved")
    /\ UNCHANGED <<supabase, user, expandedBook, isEditing, editDraft, editGenre>>
    /\ UNCHANGED <<restOfApp, readerVars, unhandled>>

\* addBook from its await: the toast of the error, or the form is cleared, its
\* stored draft removed and the dialog closed, which leaves no timer of the
\* autosave; fetchBooks is called and the toast of the success is raised.
addBookReturns ==
    /\ pending.op = "insert"
    /\ pending.reply # NoReply
    /\ IF pending.reply.kind = "error"
       THEN /\ notice' = toast("Error adding book", pending.reply.message)
            /\ pending' = NoRequest
            /\ UNCHANGED <<addForm, loadingBooks, storedAddDraft, addTimer>>
       ELSE /\ addForm' = [open |-> FALSE, title |-> EmptyStr, content |-> EmptyStr, newGenre |-> "Misc"]
            /\ storedAddDraft' = NoAddDraft
            /\ addTimer' = autosaveTimer(addForm')
            /\ loadingBooks' = TRUE
            /\ pending' = SelectRequest
            /\ notice' = toast("Book added", "saved")
    /\ UNCHANGED <<supabase, user, expandedBook, isEditing, editDraft, editGenre>>
    /\ UNCHANGED <<restOfApp, readerVars, unhandled>>

\* Save or Ctrl+Enter in the open add dialog.
SubmitAdd == addForm.open /\ addBook

\* A card is clicked: setExpandedBook(b).
OpenBook ==
    /\ pending = NoRequest
    /\ expandedBook = NoBook
    /\ \E i \in 1..Len(books) :
           /\ expandedBook' = books[i]
           /\ urlBook' = books[i].id
           /\ loadDraft(books[i])
    /\ UNCHANGED <<supabase, user, isEditing, addForm, loadingBooks, pending>>
    /\ notice' = NoNotice
    /\ UNCHANGED <<restOfApp, formVars, table, pageIndex, storedDrafts>>

\* The reader is closed: setExpandedBook(null).
CloseBook ==
    /\ pending = NoRequest
    /\ expandedBook # NoBook
    /\ ~isEditing
    /\ expandedBook' = NoBook
    /\ urlBook' = 0
    /\ UNCHANGED <<supabase, user, isEditing, editDraft, editGenre, addForm, loadingBooks, pending>>
    /\ notice' = NoNotice
    /\ UNCHANGED <<restOfApp, formVars, table, pageIndex, storedDrafts, draftOf>>

\* The Escape key with the reader open: setExpandedBook(null).
Escape ==
    /\ pending = NoRequest
    /\ expandedBook # NoBook
    /\ expandedBook' = NoBook
    /\ UNCHANGED <<supabase, user, isEditing, editDraft, editGenre, addForm, loadingBooks, pending>>
    /\ notice' = NoNotice
    /\ UNCHANGED restOfPage

\* Whether the Edit and Delete buttons of document b are rendered.
showsButtons(b) == isAdmin \/ (canWrite /\ user.id = b.created_by)

\* tryEdit(b)
tryEdit(b) ==
    /\ isEditing' = TRUE
    /\ editDraft' = [name |-> b.name,
                     summary |-> stripGenreTag(orEmpty(b.summary)),
                     content_md |-> orEmpty(b.content_md)]
    /\ editGenre' = deriveGenre(orEmpty(b.summary), orEmpty(b.content_md))

\* An Edit button is clicked: that of a card, which opens the document too and
\* keeps the click from the card, or that of the reader, which covers the cards.
\* After the card's button the effect on [expandedBook] loads a stored draft over
\* what tryEdit has set.
ClickEdit ==
    /\ pending = NoRequest
    /\ \E b \in IF expandedBook = NoBook THEN {books[i] : i \in 1..Len(books)} ELSE {expandedBook} :
           /\ showsButtons(b)
           /\ expandedBook' = b
           /\ IF expandedBook = NoBook /\ storedDrafts[b.id] # NoDraft
              THEN isEditing' = TRUE /\ loadDraft(b)
              ELSE tryEdit(b) /\ draftOf' = b.id
    /\ UNCHANGED <<supabase, user, addForm, loadingBooks, pending>>
    /\ notice' = NoNotice
    /\ UNCHANGED <<restOfApp, formVars, table, urlBook, pageIndex, storedDrafts>>

\* The edit form: its title is given a value, its Cancel button is clicked.
SetDraftName ==
    /\ pending = NoRequest
    /\ isEditing
    /\ \E v \in {<<"n">>, <<"m">>} : editDraft' = [editDraft EXCEPT !.name = v]
    /\ UNCHANGED <<supabase, user, expandedBook, isEditing, editGenre, addForm, loadingBooks, pending>>
    /\ notice' = NoNotice
    /\ UNCHANGED restOfPage

CancelEdit ==
    /\ pending = NoRequest
    /\ isEditing
    /\ isEditing' = FALSE
    /\ UNCHANGED <<supabase, user, expandedBook, editDraft, editGenre, addForm, loadingBooks, pending>>
    /\ notice' = NoNotice
    /\ UNCHANGED restOfPage

\* Whether saveEdit and deleteBook go on for a document created by owner:
\* the negation of `!isAdmin && user?.id !== created_by`.
mayChange(owner) == isAdmin \/ user.id = owner

\* saveEdit up to its await; the request carries the open document with the
\* draft's fields, which is what the handler goes on with.
saveEdit ==
    /\ pending = NoRequest
    /\ IF expandedBook = NoBook
       THEN UNCHANGED pending /\ notice' = NoNotice
       ELSE IF ~mayChange(expandedBook.created_by)
       THEN /\ notice' = toast("Insufficient permissions", "Only authors can edit their own books.")
            /\ UNCHANGED pending
       ELSE /\ pending' =
                   [op |-> "update",
                    book |-> [expandedBook EXCEPT
                                 !.name = editDraft.name,
                                 !.summary = applyGenreTag(editDraft.summary, editGenre),
                                 !.content_md = editDraft.content_md],
                    reply |-> NoReply]
            /\ notice' = NoNotice
    /\ UNCHANGED <<supabase, user, expandedBook, isEditing, editDraft, editGenre, addForm, loadingBooks>>
    /\ UNCHANGED restOfPage

\* The Save button of the edit form, which the reader renders while editing.
ClickSave == isEditing /\ expandedBook # NoBook /\ saveEdit

\* saveEdit from its await, but leaving the edit form whatever the reply is.
saveEditReturnsLeaving ==
    /\ pending.op = "update"
    /\ pending.reply # NoReply
    /\ isEditing' = FALSE
    /\ IF pending.reply.kind = "error"
       THEN /\ notice' = toast("Error updating book", pending.reply.message)
            /\ pending' = NoRequest
            /\ UNCHANGED <<expandedBook, loadingBooks, editDraft, editGenre, draftOf>>
       ELSE /\ expandedBook' = pending.book
            /\ loadDraft(pending.book)
            /\ loadingBooks' = TRUE
            /\ pending' = SelectRequest
            /\ notice' = toast("Saved", "Book updated.")
    /\ UNCHANGED <<supabase, user, addForm>>
    /\ UNCHANGED <<restOfApp, formVars, table, urlBook, pageIndex, storedDrafts>>

\* saveEdit from its await: the toast of the error, or the open document takes
\* the draft's fields, the edit form is left, fetchBooks is called and the toast
\* of the success is raised.
saveEditReturns ==
    /\ pending.op = "update"
    /\ pending.reply # NoReply
    /\ IF pending.reply.kind = "error"
       THEN /\ notice' = toast("Error updating book", pending.reply.message)
            /\ pending' = NoRequest
            /\ UNCHANGED <<expandedBook, isEditing, loadingBooks, editDraft, editGenre, draftOf>>
       ELSE /\ expandedBook' = pending.book
            /\ loadDraft(pending.book)
            /\ isEditing' = FALSE
            /\ loadingBooks' = TRUE
            /\ pending' = SelectRequest
            /\ notice' = toast("Saved", "Book updated.")
    /\ UNCHANGED <<supabase, user, addForm>>
    /\ UNCHANGED <<restOfApp, formVars, table, urlBook, pageIndex, storedDrafts>>

\* deleteBook(b) up to its await.
deleteBook(b) ==
    /\ pending = NoRequest
    /\ IF ~mayChange(b.created_by)
       THEN /\ notice' = toast("Insufficient permissions", "Only authors can delete their own books.")
            /\ UNCHANGED pending
       ELSE pending' = [op |-> "delete", book |-> b, reply |-> NoReply] /\ notice' = NoNotice
    /\ UNCHANGED <<supabase, user, expandedBook, isEditing, editDraft, editGenre, addForm, loadingBooks>>
    /\ UNCHANGED restOfPage

\* deleteBook from its await: the toast of the error, or the reader is closed,
\* fetchBooks is called and the toast of the success is raised.
deleteBookReturns ==
    /\ pending.op = "delete"
    /\ pending.reply # NoReply
    /\ IF pending.reply.kind = "error"
       THEN /\ notice' = toast("Error deleting book", pending.reply.message)
            /\ pending' = NoRequest
            /\ UNCHANGED <<expandedBook, loadingBooks>>
       ELSE /\ expandedBook' = NoBook
            /\ loadingBooks' = TRUE
            /\ pending' = SelectRequest
            /\ notice' = toast("Deleted", "Book removed from archive.")
    /\ UNCHANGED <<supabase, user, isEditing, editDraft, editGenre, addForm>>
    /\ UNCHANGED restOfPage

\* A Delete button is clicked: that of a card or that of the reader.
ClickDelete ==
    \E b \in IF expandedBook = NoBook THEN {books[i] : i \in 1..Len(books)} ELSE {expandedBook} :
        showsButtons(b) /\ deleteBook(b)

\* The Logout button: logout() ends the session, setUser(null), and the toast.
Logout ==
    /\ pending = NoRequest
    /\ supabase # Null
    /\ user' = NoUser
    /\ notice' = toast("Logged out", "")
    /\ UNCHANGED <<supabase, expandedBook, isEditing, editDraft, editGenre, addForm, loadingBooks,
                   pending>>
    /\ UNCHANGED restOfPage

StoreNext ==
    \/ fetchBooks
    \/ StoreReplies
    \/ fetchBooksReturns
    \/ SetOpen
    \/ SetTitle
    \/ SetContent
    \/ SetNewGenre
    \/ SubmitAdd
    \/ addBookReturns
    \/ OpenBook
    \/ CloseBook
    \/ Escape
    \/ ClickEdit
    \/ SetDraftName
    \/ CancelEdit
    \/ ClickSave
    \/ saveEditReturns
    \/ ClickDelete
    \/ deleteBookReturns
    \/ Logout

StoreSpec == StoreInit /\ [][StoreNext]_vars

(***************************************************************************)
(* The AuthProvider: its mount effect, getProfile, enforceExpiry, login,   *)
(* signUp, logout, the auth-state listener and the focus listener.  A call *)
(* of getProfile or of auth.signOut is awaited: it is in calls until it    *)
(* returns, and the other handlers run meanwhile.  auth.getSession,        *)
(* auth.signInWithPassword and auth.signUp resolve within the step that    *)
(* calls them.  Time is counted in days: an awaited call takes no time on  *)
(* that scale, and the browser runs a timer when it is due.                *)
(***************************************************************************)

MsPerDay == 1000 * 60 * 60 * 24

SESSION_MAX_MS == MsPerDay * 3

\* The days the clock is followed for.
MaxDays == 6

\* The account of the auth service, with the role getProfile gives it: the
\* role of its profile row, or "member" if the row cannot be read.
AuthUser(role) == [id |-> "u1", username |-> <<"a", "n", "n">>, role |-> role]

ProfileRoles == {"author", "member"}

\* What the awaited query of the profiles table gives: an error, no row, the
\* row of the user with its role, or an exception.
ProfileReplies ==
    {[kind |-> k, role |-> "none"] : k \in {"error", "missing", "thrown"}}
        \cup {[kind |-> "row", role |-> r] : r \in ProfileRoles}

\* The role getProfile sets: that of the row, and "member" on a select error, a
\* missing row and an exception.
profileRole(reply) == IF reply.kind = "row" THEN reply.role ELSE "member"

Call(kind, from) == [kind |-> kind, from |-> from]

\* The effect of the AuthProvider, scheduled by the first render.
MountEffect == Call("effect", "mount")

\* What the AuthProvider leaves alone; it raises no toast.
AuthOnly ==
    /\ notice' = NoNotice
    /\ UNCHANGED <<helperVars, filterVars, archiveVars, supabase, expandedBook, isEditing,
                   editDraft, editGenre, addForm, loadingBooks, pending, readerVars, formVars>>

\* The page is loaded on day 1 in a browser that holds no session.
AuthInit ==
    /\ pc = "idle"
    /\ content = EmptyStr
    /\ PaginateIdle
    /\ GenreIdle
    /\ FiltersIdle
    /\ ArchiveIdle
    /\ StoreIdle
    /\ loadingBooks = TRUE
    /\ ReaderIdle
    /\ table = << >>
    /\ loading = TRUE
    /\ session = "none"
    /\ storedTs = 0
    /\ now = MsPerDay
    /\ timers = {}
    /\ calls = {MountEffect}
    /\ authError = ""
    /\ loginAt = 0
    /\ loggedOut = FALSE
    /\ expired = FALSE

\* The mount effect up to the await of getProfile: without a client the
\* provider is settled at once; with one, getSession gives the live session.
mountEffect ==
    /\ MountEffect \in calls
    /\ IF supabase = Null
       THEN loading' = FALSE /\ calls' = calls \ {MountEffect}
       ELSE IF session # "none"
       THEN /\ calls' = (calls \ {MountEffect}) \cup {Call("getProfile", "startup")}
            /\ UNCHANGED loading
       ELSE loading' = FALSE /\ calls' = calls \ {MountEffect}
    /\ authError' = ""
    /\ UNCHANGED <<user, session, storedTs, now, timers, loginAt, loggedOut, expired>>
    /\ AuthOnly

\* SESSION_MAX_MS - (now - last), but counted from now.
remainingFromNow(last) == SESSION_MAX_MS

\* SESSION_MAX_MS - (now - last)
remaining(last) == SESSION_MAX_MS - (now - last)

\* enforceExpiry(loginAtMs) up to its await, the other calls being left;
\* loginAtMs is -1 for null.
enforceExpiry(loginAtMs, left) ==
    LET last == IF loginAtMs >= 0 THEN loginAtMs ELSE storedTs
    IN IF last # 0 /\ now - last > SESSION_MAX_MS
       THEN calls' = left \cup {Call("signOut", "expiry")} /\ UNCHANGED timers
       ELSE IF last # 0
       THEN /\ timers' = timers \cup {now + (IF remaining(last) > 0 THEN remaining(last) ELSE 0)}
            /\ calls' = left
       ELSE calls' = left /\ UNCHANGED timers

\* getProfile returns, and its caller goes on: the mount effect and login and
\* signUp with enforceExpiry, the listeners with nothing.
getProfileReturns ==
    /\ \E c \in calls :
           /\ c.kind = "getProfile"
           /\ \E reply \in ProfileReplies : user' = AuthUser(profileRole(reply))
           /\ IF c.from = "startup"
              THEN enforceExpiry(-1, calls \ {c}) /\ loading' = FALSE
              ELSE IF c.from \in {"login", "signUp"}
              THEN enforceExpiry(now, calls \ {c}) /\ UNCHANGED loading
              ELSE calls' = calls \ {c} /\ UNCHANGED <<timers, loading>>
    /\ authError' = ""
    /\ UNCHANGED <<session, storedTs, now, loginAt, loggedOut, expired>>
    /\ AuthOnly

\* An expiry timer is due: its callback runs up to the await of signOut.
ExpiryTimerFires ==
    /\ \E due \in timers :
           /\ due <= now
           /\ timers' = timers \ {due}
    /\ calls' = calls \cup {Call("signOut", "expiry")}
    /\ authError' = ""
    /\ UNCHANGED <<user, loading, session, storedTs, now, loginAt, loggedOut, expired>>
    /\ AuthOnly

\* enforceExpiry or the timer's callback from the await of signOut.
expiryReturns ==
    /\ Call("signOut", "expiry") \in calls
    /\ calls' = calls \ {Call("signOut", "expiry")}
    /\ session' = "none"
    /\ storedTs' = 0
    /\ user' = NoUser
    /\ expired' = TRUE
    /\ authError' = ""
    /\ UNCHANGED <<loading, now, timers, loginAt, loggedOut>>
    /\ AuthOnly

\* logout up to its await.
logout ==
    /\ IF supabase = Null
       THEN UNCHANGED calls
       ELSE calls' = calls \cup {Call("signOut", "logout")}
    /\ authError' = ""
    /\ UNCHANGED <<user, loading, session, storedTs, now, timers, loginAt, loggedOut, expired>>
    /\ AuthOnly

\* logout from its await.
logoutReturns ==
    /\ Call("signOut", "logout") \in calls
    /\ calls' = calls \ {Call("signOut", "logout")}
    /\ session' = "none"
    /\ storedTs' = 0
    /\ user' = NoUser
    /\ loggedOut' = TRUE
    /\ authError' = ""
    /\ UNCHANGED <<loading, now, timers, loginAt, expired>>
    /\ AuthOnly

\* A session begins: the stored time is written and getProfile is called.
SessionBegins(from) ==
    /\ session' = "u1"
    /\ storedTs' = now
    /\ calls' = calls \cup {Call("getProfile", from)}
    /\ loginAt' = now
    /\ loggedOut' = FALSE
    /\ expired' = FALSE
    /\ authError' = ""

\* login without the test of the client.
loginUnguarded ==
    /\ \E ok \in BOOLEAN :
           IF ok THEN SessionBegins("login")
           ELSE /\ authError' = "Invalid login credentials"
                /\ UNCHANGED <<session, storedTs, calls, loginAt, loggedOut, expired>>
    /\ UNCHANGED <<user, loading, now, timers>>
    /\ AuthOnly

\* login up to the await of getProfile: it throws, or the service refuses the
\* credentials, or it gives the user.
login ==
    /\ IF supabase = Null
       THEN /\ authError' = "Supabase not configured"
            /\ UNCHANGED <<session, storedTs, calls, loginAt, loggedOut, expired>>
       ELSE \E ok \in BOOLEAN :
                IF ok THEN SessionBegins("login")
                ELSE /\ authError' = "Invalid login credentials"
                     /\ UNCHANGED <<session, storedTs, calls, loginAt, loggedOut, expired>>
    /\ UNCHANGED <<user, loading, now, timers>>
    /\ AuthOnly

\* signUp up to the await of getProfile: it throws, or the service refuses, or
\* it gives a user who has to confirm, or a user with a session.
signUp ==
    /\ IF supabase = Null
       THEN /\ authError' = "Supabase not configured"
            /\ UNCHANGED <<session, storedTs, calls, loginAt, loggedOut, expired>>
       ELSE \E outcome \in {"error", "confirm", "session"} :
                IF outcome = "session" THEN SessionBegins("signUp")
                ELSE /\ authError' = IF outcome = "error" THEN "User already registered" ELSE ""
                     /\ UNCHANGED <<session, storedTs, calls, loginAt, loggedOut, expired>>
    /\ UNCHANGED <<user, loading, now, timers>>
    /\ AuthOnly

\* The listener of onAuthStateChange is called with the session of the service.
AuthStateChange ==
    /\ supabase # Null
    /\ MountEffect \notin calls
    /\ IF session # "none"
       THEN /\ calls' = calls \cup {Call("getProfile", "auth")}
            /\ loggedOut' = FALSE
            /\ UNCHANGED user
       ELSE user' = NoUser /\ UNCHANGED <<calls, loggedOut>>
    /\ authError' = ""
    /\ UNCHANGED <<loading, session, storedTs, now, timers, loginAt, expired>>
    /\ AuthOnly

\* The tab gets the focus: onFocus.
onFocus ==
    /\ supabase # Null
    /\ MountEffect \notin calls
    /\ IF session # "none"
       THEN calls' = calls \cup {Call("getProfile", "focus")}
       ELSE UNCHANGED calls
    /\ authError' = ""
    /\ UNCHANGED <<user, loading, session, storedTs, now, timers, loginAt, loggedOut, expired>>
    /\ AuthOnly

\* A day passes with the page open: nothing is awaited and no timer is due.
DayPasses ==
    /\ calls = {}
    /\ \A due \in timers : due > now
    /\ now < MaxDays * MsPerDay
    /\ now' = now + MsPerDay
    /\ authError' = ""
    /\ UNCHANGED <<user, loading, session, storedTs, timers, calls, loginAt, loggedOut, expired>>
    /\ AuthOnly

\* The page is loaded again, at once or days after it was closed: the state of
\* the provider is constructed anew, its timers and awaited calls are gone, what
\* the browser stores is kept.
Reload ==
    /\ \E days \in 0..MaxDays :
           /\ now + days * MsPerDay <= MaxDays * MsPerDay
           /\ now' = now + days * MsPerDay
    /\ user' = NoUser
    /\ loading' = TRUE
    /\ timers' = {}
    /\ calls' = {MountEffect}
    /\ authError' = ""
    /\ UNCHANGED <<session, storedTs, loginAt, loggedOut, expired>>
    /\ AuthOnly

AuthNext ==
    \/ mountEffect
    \/ getProfileReturns
    \/ ExpiryTimerFires
    \/ expiryReturns
    \/ logout
    \/ logoutReturns
    \/ login
    \/ signUp
    \/ AuthStateChange
    \/ onFocus
    \/ DayPasses
    \/ Reload

AuthSpec == AuthInit /\ [][AuthNext]_vars

(***************************************************************************)
(* The AuthProvider of src/context/AuthContext.tsx: getProfile throws the   *)
(* error of the select and creates a missing profile; the mount effect     *)
(* chains on getSession and does not await getProfile; there is no expiry. *)
(***************************************************************************)

\* The page is loaded, with or without a client, in a browser that may hold a
\* session.
LegacyInit ==
    /\ pc = "idle"
    /\ content = EmptyStr
    /\ PaginateIdle
    /\ GenreIdle
    /\ FiltersIdle
    /\ ArchiveIdle
    /\ ReaderIdle
    /\ table = << >>
    /\ supabase \in {"client", Null}
    /\ user = NoUser
    /\ expandedBook = NoBook
    /\ isEditing = FALSE
    /\ editDraft = [name |-> EmptyStr, summary |-> EmptyStr, content_md |-> EmptyStr]
    /\ editGenre = "Misc"
    /\ addForm = [open |-> FALSE, title |-> EmptyStr, content |-> EmptyStr, newGenre |-> "Misc"]
    /\ loadingBooks = TRUE
    /\ pending = NoRequest
    /\ notice = NoNotice
    /\ loading = TRUE
    /\ session \in {"none", "u1"}
    /\ storedTs = 0
    /\ now = MsPerDay
    /\ timers = {}
    /\ calls = {MountEffect}
    /\ authError = ""
    /\ loginAt = 0
    /\ loggedOut = FALSE
    /\ expired = FALSE

\* What the steps of this provider leave alone.
LegacyOnly ==
    /\ notice' = NoNotice
    /\ UNCHANGED <<helperVars, filterVars, archiveVars, supabase, expandedBook, isEditing,
                   editDraft, editGenre, addForm, loadingBooks, pending, readerVars,
                   storedAddDraft, addTimer>>
    /\ UNCHANGED <<storedTs, now, timers, loginAt, loggedOut, expired>>

\* The mount effect: without a client setLoading(false); with one, getSession is
\* called and the listener is subscribed.
legacyMountEffect ==
    /\ MountEffect \in calls
    /\ IF supabase = Null
       THEN loading' = FALSE /\ calls' = calls \ {MountEffect}
       ELSE /\ calls' = (calls \ {MountEffect}) \cup {Call("getSession", "startup")}
            /\ UNCHANGED loading
    /\ authError' = ""
    /\ UNCHANGED <<user, session, unhandled>>
    /\ LegacyOnly

\* The promise of getSession settles: its then-callback calls getProfile for a
\* live session, without awaiting it, and setLoading(false); nothing handles a
\* rejection.
legacyGetSessionReturns ==
    /\ Call("getSession", "startup") \in calls
    /\ \E resolved \in BOOLEAN :
           IF resolved
           THEN /\ calls' = (calls \ {Call("getSession", "startup")})
                                \cup (IF session # "none" THEN {Call("getProfile", "startup")} ELSE {})
                /\ loading' = FALSE
                /\ UNCHANGED unhandled
           ELSE /\ calls' = calls \ {Call("getSession", "startup")}
                /\ unhandled' = TRUE
                /\ UNCHANGED loading
    /\ authError' = ""
    /\ UNCHANGED <<user, session>>
    /\ LegacyOnly

\* getProfile from its await: the error of the select and an exception are
\* thrown to the caller, which logs them or is rejected with them; a missing
\* row is created with the role "member", and the role of the row created is
\* taken, or "member" when the upsert fails; a row gives its role.
legacyGetProfileReturns ==
    /\ \E c \in calls :
           /\ c.kind = "getProfile"
           /\ calls' = calls \ {c}
           /\ \E reply \in ProfileReplies :
                  IF reply.kind \in {"error", "thrown"}
                  THEN authError' = "profile query failed" /\ UNCHANGED user
                  ELSE IF reply.kind = "missing"
                  THEN /\ \E created \in ProfileRoles \cup {"upsertError"} :
                              user' = AuthUser(IF created = "upsertError" THEN "member" ELSE created)
                       /\ authError' = ""
                  ELSE user' = AuthUser(reply.role) /\ authError' = ""
    /\ UNCHANGED <<loading, session, unhandled>>
    /\ LegacyOnly

\* login up to the await of getProfile.
legacyLogin ==
    /\ IF supabase = Null
       THEN authError' = "Supabase not configured" /\ UNCHANGED <<session, calls>>
       ELSE \E ok \in BOOLEAN :
                IF ok
                THEN /\ session' = "u1"
                     /\ calls' = calls \cup {Call("getProfile", "login")}
                     /\ authError' = ""
                ELSE authError' = "Invalid login credentials" /\ UNCHANGED <<session, calls>>
    /\ UNCHANGED <<user, loading, unhandled>>
    /\ LegacyOnly

\* logout up to its await, and from it: setUser(null).
legacyLogout ==
    /\ IF supabase = Null
       THEN UNCHANGED calls
       ELSE calls' = calls \cup {Call("signOut", "logout")}
    /\ authError' = ""
    /\ UNCHANGED <<user, loading, session, unhandled>>
    /\ LegacyOnly

legacyLogoutReturns ==
    /\ Call("signOut", "logout") \in calls
    /\ calls' = calls \ {Call("signOut", "logout")}
    /\ session' = "none"
    /\ user' = NoUser
    /\ authError' = ""
    /\ UNCHANGED <<loading, unhandled>>
    /\ LegacyOnly

\* The listener of onAuthStateChange is called with the session of the service.
legacyAuthStateChange ==
    /\ supabase # Null
    /\ MountEffect \notin calls
    /\ IF session # "none"
       THEN calls' = calls \cup {Call("getProfile", "auth")} /\ UNCHANGED user
       ELSE user' = NoUser /\ UNCHANGED calls
    /\ authError' = ""
    /\ UNCHANGED <<loading, session, unhandled>>
    /\ LegacyOnly

LegacyNext ==
    \/ legacyMountEffect
    \/ legacyGetSessionReturns
    \/ legacyGetProfileReturns
    \/ legacyLogin
    \/ legacyLogout
    \/ legacyLogoutReturns
    \/ legacyAuthStateChange

\* React runs the effect after the first render, and the promise of getSession
\* settles.
LegacySpec ==
    /\ LegacyInit
    /\ [][LegacyNext]_vars
    /\ WF_vars(legacyMountEffect)
    /\ WF_vars(legacyGetSessionReturns)

(***************************************************************************)
(* The page without a configured client: the handlers of the archive view  *)
(* and of the AuthProvider are called as their callers may call them, the  *)
(* content field holding any value, and the filters are used meanwhile.    *)
(***************************************************************************)

UnconfiguredInit ==
    /\ pc = "idle"
    /\ content = EmptyStr
    /\ PaginateIdle
    /\ GenreIdle
    /\ FiltersIdle
    /\ ArchiveIdle
    /\ supabase = Null
    /\ user = NoUser
    /\ expandedBook = NoBook
    /\ isEditing = FALSE
    /\ editDraft = [name |-> EmptyStr, summary |-> EmptyStr, content_md |-> EmptyStr]
    /\ editGenre = "Misc"
    /\ addForm = [open |-> FALSE, title |-> EmptyStr, content |-> EmptyStr, newGenre |-> "Misc"]
    /\ loadingBooks = TRUE
    /\ ReaderIdle
    /\ table = << >>
    /\ pending = NoRequest
    /\ notice = NoNotice
    /\ loading = TRUE
    /\ session = "none"
    /\ storedTs = 0
    /\ now = MsPerDay
    /\ timers = {}
    /\ calls = {MountEffect}
    /\ authError = ""
    /\ loginAt = 0
    /\ loggedOut = FALSE
    /\ expired = FALSE

UnconfiguredNext ==
    \/ mountEffect
    \/ fetchBooks
    \/ SetContent
    \/ addBook
    \/ login
    \/ signUp
    \/ logout
    \/ SelectGenre
    \/ SelectSort
    \/ ToggleOnlyFavorites

\* React runs the effect of a mounted component.
UnconfiguredSpec == UnconfiguredInit /\ [][UnconfiguredNext]_vars /\ WF_vars(mountEffect)

(***************************************************************************)
(* The reader: the documents of the store differ in length, an admin opens, *)
(* pages through, edits, saves, deletes and closes them; the page may have *)
(* been loaded from a link that carries the "book" parameter.              *)
(***************************************************************************)

\* A text of two words that takes more than one page.
LongText == [i \in 1..(DefaultBudget + 2) |-> IF i = 3 THEN SP ELSE "a"]

\* The rows of the books table: a document of several pages and one of one page.
ReaderRows == <<[StoreRow(1, "u1") EXCEPT !.content_md = LongText], StoreRow(2, "u2")>>

\* The contents of these documents, and their pages as paginate gives them.
ReaderTexts == {ReaderRows[i].content_md : i \in 1..Len(ReaderRows)}

readerPages == [t \in ReaderTexts |-> paginate(t, DefaultBudget)]

\* currentPages = useMemo(() => paginate(expandedBook?.content_md || ""), [expandedBook])
currentPages ==
    LET t == IF expandedBook = NoBook THEN EmptyStr ELSE orEmpty(expandedBook.content_md)
    IN IF t \in ReaderTexts THEN readerPages[t] ELSE paginate(t, DefaultBudget)

\* Math.min and Math.max of two numbers.
MathMin(a, b) == IF a < b THEN a ELSE b
MathMax(a, b) == IF a > b THEN a ELSE b

\* The links the page is loaded from: none, that of each document, and that of a
\* document the store does not hold.
ReaderLinks == 0..(Len(ReaderRows) + 1)

ReaderInit ==
    /\ pc = "idle"
    /\ content = EmptyStr
    /\ PaginateIdle
    /\ GenreIdle
    /\ FiltersIdle
    /\ ArchiveIdle
    /\ AuthIdle
    /\ supabase = "client"
    /\ user = [id |-> "a", username |-> <<"a", "d", "a">>, role |-> "admin"]
    /\ expandedBook = NoBook
    /\ isEditing = FALSE
    /\ editDraft = [name |-> EmptyStr, summary |-> EmptyStr, content_md |-> EmptyStr]
    /\ editGenre = "Misc"
    /\ addForm = [open |-> FALSE, title |-> EmptyStr, content |-> EmptyStr, newGenre |-> "Misc"]
    /\ loadingBooks = TRUE
    /\ pending = SelectRequest
    /\ notice = NoNotice
    /\ table = ReaderRows
    /\ urlBook \in ReaderLinks
    /\ pageIndex = 0
    /\ storedDrafts = [id \in BookIds |-> NoDraft]
    /\ draftOf = 0
    /\ storedAddDraft = NoAddDraft
    /\ addTimer = NoAddDraft
    /\ unhandled = FALSE

\* ArrowLeft, and the button of the previous page: setPageIndex((p) => Math.max(0, p - 1))
PrevPage ==
    /\ pending = NoRequest
    /\ expandedBook # NoBook
    /\ pageIndex' = MathMax(0, pageIndex - 1)
    /\ notice' = NoNotice
    /\ UNCHANGED <<supabase, user, expandedBook, isEditing, editDraft, editGenre, addForm,
                   loadingBooks, pending>>
    /\ UNCHANGED <<restOfApp, formVars, table, urlBook, storedDrafts, draftOf>>

\* ArrowRight, and the button of the next page:
\* setPageIndex((p) => Math.min(currentPages.length - 1, p + 1))
NextPage ==
    /\ pending = NoRequest
    /\ expandedBook # NoBook
    /\ pageIndex' = MathMin(Len(currentPages) - 1, pageIndex + 1)
    /\ notice' = NoNotice
    /\ UNCHANGED <<supabase, user, expandedBook, isEditing, editDraft, editGenre, addForm,
                   loadingBooks, pending>>
    /\ UNCHANGED <<restOfApp, formVars, table, urlBook, storedDrafts, draftOf>>

\* The slider of the reader, from 0 to Math.max(0, currentPages.length - 1):
\* setPageIndex(v[0] || 0)
SetPage ==
    /\ pending = NoRequest
    /\ expandedBook # NoBook
    /\ ~isEditing
    /\ \E v \in 0..MathMax(0, Len(currentPages) - 1) : pageIndex' = v
    /\ notice' = NoNotice
    /\ UNCHANGED <<supabase, user, expandedBook, isEditing, editDraft, editGenre, addForm,
                   loadingBooks, pending>>
    /\ UNCHANGED <<restOfApp, formVars, table, urlBook, storedDrafts, draftOf>>

\* The timer of the autosave effect fires: while editing with a document open the
\* edit form is stored under "draft:<id>" of the open document.
AutosaveDraft ==
    /\ isEditing
    /\ expandedBook # NoBook
    /\ storedDrafts' =
           [storedDrafts EXCEPT ![expandedBook.id] =
                [name |-> editDraft.name, summary |-> editDraft.summary,
                 content_md |-> editDraft.content_md, genre |-> editGenre, origin |-> draftOf]]
    /\ notice' = NoNotice
    /\ UNCHANGED <<supabase, user, expandedBook, isEditing, editDraft, editGenre, addForm,
                   loadingBooks, pending>>
    /\ UNCHANGED <<restOfApp, formVars, table, urlBook, pageIndex, draftOf>>

ReaderNext ==
    \/ StoreReplies
    \/ fetchBooksReturns
    \/ OpenBook
    \/ CloseBook
    \/ Escape
    \/ PrevPage
    \/ NextPage
    \/ SetPage
    \/ ClickEdit
    \/ CancelEdit
    \/ AutosaveDraft
    \/ ClickSave
    \/ saveEditReturns
    \/ ClickDelete
    \/ deleteBookReturns

ReaderSpec == ReaderInit /\ [][ReaderNext]_vars

(***************************************************************************)
(* The add dialog: an author fills the form by typing, pasting, importing  *)
(* and dropping a file, the autosave stores it, and addBook saves it; the  *)
(* reader's copy buttons use the clipboard too.                            *)
(***************************************************************************)

\* What an awaited read of the clipboard or of a file gives: it is rejected, or
\* it resolves with a text.
Reads == {[ok |-> FALSE, text |-> EmptyStr]} \cup {[ok |-> TRUE, text |-> t] : t \in {EmptyStr, <<"p">>}}

FormInit ==
    /\ pc = "idle"
    /\ content = EmptyStr
    /\ PaginateIdle
    /\ GenreIdle
    /\ FiltersIdle
    /\ ArchiveIdle
    /\ AuthIdle
    /\ ReaderIdle
    /\ supabase = "client"
    /\ user = [id |-> "u1", username |-> <<"a", "n", "n">>, role |-> "author"]
    /\ expandedBook = NoBook
    /\ isEditing = FALSE
    /\ editDraft = [name |-> EmptyStr, summary |-> EmptyStr, content_md |-> EmptyStr]
    /\ editGenre = "Misc"
    /\ addForm = [open |-> FALSE, title |-> EmptyStr, content |-> EmptyStr, newGenre |-> "Misc"]
    /\ loadingBooks = TRUE
    /\ pending = SelectRequest
    /\ notice = NoNotice
    /\ table = <<StoreRow(1, "u1")>>

\* What the handlers of the add dialog leave alone, the content field and the
\* timer of the autosave apart.
restOfForm ==
    <<supabase, user, expandedBook, isEditing, editDraft, editGenre, loadingBooks, pending,
      restOfApp, readerVars, storedAddDraft>>

\* setContent(text) and the autosave effect that follows the render.
setContent(text) ==
    /\ addForm' = [addForm EXCEPT !.content = text]
    /\ addTimer' = autosaveTimer(addForm')

\* pasteFromClipboard: the text read fills the content field, an empty one and
\* a rejected read raise a toast.
pasteFromClipboard ==
    /\ pending = NoRequest
    /\ addForm.open
    /\ \E r \in Reads :
           IF ~r.ok
           THEN /\ notice' = toast("Clipboard error", "Cannot read clipboard in this context.")
                /\ UNCHANGED <<addForm, addTimer>>
           ELSE IF r.text = EmptyStr
           THEN /\ notice' = toast("Clipboard empty", "Nothing to paste.")
                /\ UNCHANGED <<addForm, addTimer>>
           ELSE notice' = NoNotice /\ setContent(r.text)
    /\ UNCHANGED <<restOfForm, unhandled>>

\* onTxtSelected: without a file nothing; otherwise the text read fills the
\* content field; nothing catches a rejected read, and the finally block assigns
\* to e.currentTarget, which the event may no longer hold after the await.
onTxtSelected ==
    /\ pending = NoRequest
    /\ addForm.open
    /\ \E picked \in BOOLEAN, r \in Reads, thrown \in BOOLEAN :
           IF ~picked
           THEN UNCHANGED <<addForm, addTimer, unhandled>>
           ELSE /\ IF r.ok THEN setContent(r.text) ELSE UNCHANGED <<addForm, addTimer>>
                /\ unhandled' = (unhandled \/ ~r.ok \/ thrown)
    /\ notice' = NoNotice
    /\ UNCHANGED restOfForm

\* handleDrop: without a file nothing, a file that is not .txt raises a toast,
\* the text read of a .txt file fills the content field; nothing catches a
\* rejected read.
handleDrop ==
    /\ pending = NoRequest
    /\ addForm.open
    /\ \E file \in {"none", "other", "txt"}, r \in Reads :
           IF file = "none"
           THEN notice' = NoNotice /\ UNCHANGED <<addForm, addTimer, unhandled>>
           ELSE IF file = "other"
           THEN /\ notice' = toast("Unsupported file", "Please drop a .txt file.")
                /\ UNCHANGED <<addForm, addTimer, unhandled>>
           ELSE /\ notice' = NoNotice
                /\ IF r.ok THEN setContent(r.text) ELSE UNCHANGED <<addForm, addTimer>>
                /\ unhandled' = (unhandled \/ ~r.ok)
    /\ UNCHANGED restOfForm

\* copyCurrentPage and copyShareLink: the toast of the success, or that of the
\* catch block.
copyCurrentPage ==
    /\ pending = NoRequest
    /\ expandedBook # NoBook
    /\ ~isEditing
    /\ \E ok \in BOOLEAN :
           notice' = IF ok THEN toast("Copied", "Current page copied to clipboard.")
                     ELSE toast("Copy failed", "Could not copy to clipboard.")
    /\ UNCHANGED <<addForm, addTimer, restOfForm, unhandled>>

copyShareLink ==
    /\ pending = NoRequest
    /\ expandedBook # NoBook \/ Len(books) > 0
    /\ \E ok \in BOOLEAN :
           notice' = IF ok THEN toast("Link copied", "Share link copied to clipboard.")
                     ELSE toast("Copy failed", "Could not copy link.")
    /\ UNCHANGED <<addForm, addTimer, restOfForm, unhandled>>

\* clearAddDraft: the form is cleared and its stored draft removed; the dialog
\* stays open, so the autosave effect sets its timer again.
clearAddDraft ==
    /\ pending = NoRequest
    /\ addForm.open
    /\ addForm' = [addForm EXCEPT !.title = EmptyStr, !.content = EmptyStr, !.newGenre = "Misc"]
    /\ storedAddDraft' = NoAddDraft
    /\ addTimer' = autosaveTimer(addForm')
    /\ notice' = NoNotice
    /\ UNCHANGED <<supabase, user, expandedBook, isEditing, editDraft, editGenre, loadingBooks,
                   pending, restOfApp, readerVars, unhandled>>

\* The timer of the add form's autosave fires: the form as the timer's render
\* held it is stored under "addDraft".
AutosaveAdd ==
    /\ addTimer # NoAddDraft
    /\ storedAddDraft' = addTimer
    /\ addTimer' = NoAddDraft
    /\ notice' = NoNotice
    /\ UNCHANGED <<supabase, user, expandedBook, isEditing, editDraft, editGenre, addForm,
                   loadingBooks, pending, restOfApp, readerVars, unhandled>>

FormNext ==
    \/ StoreReplies
    \/ fetchBooksReturns
    \/ SetOpen
    \/ SetTitle
    \/ SetContent
    \/ SetNewGenre
    \/ clearAddDraft
    \/ pasteFromClipboard
    \/ onTxtSelected
    \/ handleDrop
    \/ AutosaveAdd
    \/ SubmitAdd
    \/ addBookReturns
    \/ OpenBook
    \/ CloseBook
    \/ copyCurrentPage
    \/ copyShareLink

FormSpec == FormInit /\ [][FormNext]_vars

(***************************************************************************)
(* Properties of paginate                                                  *)
(***************************************************************************)

\* s is one word: a non-empty string without white space.
IsWord(s) == s # EmptyStr /\ \A i \in 1..Len(s) : s[i] \notin WhiteSpace

\* Last position of the word of s that starts at position i.
WordEnd(s, i) ==
    CHOOSE j \in i..Len(s) :
        (j = Len(s) \/ s[j + 1] \in WhiteSpace) /\ \A k \in i..j : s[k] \notin WhiteSpace

\* The words of s (its maximal runs without white space), in order.
RECURSIVE WordsFrom(_, _)
WordsFrom(s, i) ==
    IF i > Len(s) THEN << >>
    ELSE IF s[i] \in WhiteSpace THEN WordsFrom(s, i + 1)
    ELSE <<SubSeq(s, i, WordEnd(s, i))>> \o WordsFrom(s, WordEnd(s, i) + 1)

WordsOf(s) == WordsFrom(s, 1)

\* The words of the pages ps, read in page order.
RECURSIVE WordsOfPages(_)
WordsOfPages(ps) ==
    IF ps = << >> THEN << >> ELSE WordsOf(Head(ps)) \o WordsOfPages(Tail(ps))

\* C1: paginate returns at least one page, and a page is longer than the budget
\* only if it is a single word that is by itself longer than the budget.
C1_PageWithinBudget ==
    pc = "done" =>
        /\ Len(pages) >= 1
        /\ \A k \in 1..Len(pages) :
               Len(pages[k]) <= approxCharsPerPage \/ IsWord(pages[k])

\* A result with an over-budget single-word page next to a page of several words.
C1_Witness ==
    /\ pc = "done"
    /\ \E k \in 1..Len(pages) : Len(pages[k]) > approxCharsPerPage /\ IsWord(pages[k])
    /\ \E k \in 1..Len(pages) : Len(WordsOf(pages[k])) >= 2

\* C2: the result is the single empty page exactly when the content is empty after
\* trimming; for every other content no page is the empty string.
C2_EmptyPageIffEmptyContent ==
    pc = "done" =>
        /\ pages = <<EmptyStr>> <=> \A i \in 1..Len(content) : content[i] \in WhiteSpace
        /\ (\E i \in 1..Len(content) : content[i] \notin WhiteSpace)
               => \A k \in 1..Len(pages) : pages[k] # EmptyStr

\* White space alone was paginated into the one empty page.
C2_Witness ==
    /\ pc = "done"
    /\ content # EmptyStr
    /\ \A i \in 1..Len(content) : content[i] \in WhiteSpace
    /\ pages = <<EmptyStr>>

\* C3: the words of the pages, read in order, are the words of the content: no
\* word is dropped, duplicated, reordered, truncated or split across pages.
C3_WordsPreserved ==
    pc = "done" => WordsOfPages(pages) = WordsOf(content)

\* Several pages, one of them holding several words, one a word-split chunk.
C3_Witness ==
    /\ pc = "done"
    /\ Len(pages) >= 2
    /\ \E k \in 1..Len(pages) : Len(WordsOf(pages[k])) >= 2
    /\ \E i, j \in 1..Len(content) : content[i] = "a" /\ content[j] = "b"

\* The blank line that joins two paragraphs on a page.
BlankLine == <<NL, NL>>

\* The loop state before the outer loop's turn i on the paragraphs ps.
BeforeParagraph(ps, i, budget) ==
    paragraphLoop([pages |-> << >>, current |-> EmptyStr], ps, 1, i - 1, budget)

\* The loop state before the inner loop's turn k on the words ws of an over-budget
\* paragraph, the outer loop being in state st when it meets that paragraph.
BeforeWord(st, ws, k, budget) ==
    wordLoop([pages |-> IF st.current # EmptyStr THEN Append(st.pages, st.current)
                        ELSE st.pages,
              chunk |-> EmptyStr],
             ws, 1, k - 1, budget)

\* Turn i of the outer loop is greedy: paragraph p joins the current page whenever
\* the joined length is within the budget, and a page is closed only when it is not.
GreedyParagraphTurn(st, p, budget) ==
    LET joined == IF st.current # EmptyStr THEN st.current \o BlankLine \o p ELSE p
        after == paragraphStep(st, p, budget)
    IN /\ Len(joined) <= budget => after = [pages |-> st.pages, current |-> joined]
       /\ Len(after.pages) > Len(st.pages) => Len(joined) > budget
       /\ (Len(joined) > budget /\ st.current # EmptyStr)
              => after.pages[Len(st.pages) + 1] = st.current

\* Turn k of the inner loop is greedy in the same way, the separator being a space.
GreedyWordTurn(st, w, budget) ==
    LET joined == IF st.chunk # EmptyStr THEN st.chunk \o <<SP>> \o w ELSE w
        after == wordStep(st, w, budget)
    IN /\ Len(joined) <= budget => after = [pages |-> st.pages, chunk |-> joined]
       /\ Len(after.pages) > Len(st.pages)
              => Len(joined) > budget /\ after.pages = Append(st.pages, st.chunk)

\* C4 (as amended): paginate is greedy over the paragraphs of the content and,
\* inside a paragraph longer than the budget, over its words: a paragraph (word)
\* joins the current page by a blank line (a space) whenever the joined length is
\* within the budget, and a page is closed only when joining the next paragraph of
\* the content, taken whole, or inside an over-budget paragraph the next word,
\* would exceed the budget.
C4_GreedyTurns ==
    pc = "done" =>
        LET ps == splitParagraphs(trim(content))
        IN \A i \in 1..Len(ps) :
               LET st == BeforeParagraph(ps, i, approxCharsPerPage)
                   ws == splitWords(ps[i])
               IN /\ GreedyParagraphTurn(st, ps[i], approxCharsPerPage)
                  /\ Len(ps[i]) > approxCharsPerPage =>
                         \A k \in 1..Len(ws) :
                             GreedyWordTurn(BeforeWord(st, ws, k, approxCharsPerPage),
                                            ws[k], approxCharsPerPage)

\* A page was closed before an over-budget paragraph whose first word chunk would
\* have fitted on it, and that paragraph was split into several chunks.
C4_Witness ==
    /\ pc = "done"
    /\ Len(pages) >= 3
    /\ Len(pages[1]) + Len(BlankLine) + Len(pages[2]) <= approxCharsPerPage
    /\ Len(splitParagraphs(trim(content))) = 2

\* C4 as stated: for two consecutive pages, the earlier page plus the separator
\* plus the first paragraph (or first word chunk) of the later page exceeds the
\* budget.
C4_ConsecutivePagesOverflow ==
    pc = "done" =>
        \A k \in 1..(Len(pages) - 1) :
            Len(pages[k]) + Len(BlankLine) + Len(Head(splitParagraphs(pages[k + 1])))
                > approxCharsPerPage

(***************************************************************************)
(* Properties of the end-to-end example                                    *)
(***************************************************************************)

\* The pages ps joined by single spaces.
RECURSIVE JoinBySpace(_)
JoinBySpace(ps) ==
    IF Len(ps) = 0 THEN EmptyStr
    ELSE IF Len(ps) = 1 THEN ps[1]
    ELSE ps[1] \o <<SP>> \o JoinBySpace(Tail(ps))

\* s has no blank line: it is a single paragraph.
SingleParagraph(s) == \A i \in 1..(Len(s) - 1) : ~(s[i] = NL /\ s[i + 1] = NL)

\* The only white space of s is single spaces between words.
SingleSpaced(s) ==
    /\ s # EmptyStr
    /\ s[1] # SP /\ s[Len(s)] # SP
    /\ \A i \in 1..Len(s) : s[i] \in WhiteSpace => s[i] = SP /\ s[i + 1] # SP

\* No word of s is longer than n characters.
WordsWithin(s, n) ==
    \A i \in 1..Len(s) :
        (s[i] \notin WhiteSpace /\ (i = 1 \/ s[i - 1] \in WhiteSpace))
            => \E k \in i..(i + n) : k > Len(s) \/ s[k] \in WhiteSpace

\* The example's result: exactly 3 pages, none longer than the budget, that joined
\* by single spaces give the text back.
ThreePagesRoundTrip ==
    /\ Len(pages) = 3
    /\ \A k \in 1..Len(pages) : Len(pages[k]) <= DefaultBudget
    /\ JoinBySpace(pages) = content

\* The longest word for which a text of E2ELength characters always fits 3 pages:
\* each of the first two pages then holds at least DefaultBudget - LongestEvenWord
\* characters, which leaves at most DefaultBudget characters for the third (601).
LongestEvenWord == (3 * DefaultBudget + 2 - E2ELength) \div 2

\* C5 (as amended): paginating a 3000-character text whose only white space is
\* single spaces between words of at most 601 characters, with budget 1400, yields
\* exactly 3 pages, none longer than 1400 characters, and joining the pages with
\* single spaces reproduces the text.
C5_ThreePagesOfShortWords ==
    (/\ pc = "done"
     /\ Len(content) = E2ELength
     /\ approxCharsPerPage = DefaultBudget
     /\ SingleSpaced(content)
     /\ WordsWithin(content, LongestEvenWord))
        => ThreePagesRoundTrip

\* A single-spaced text with words of 601 characters was paginated into 3 pages.
C5_Witness ==
    /\ pc = "done"
    /\ Len(content) = E2ELength
    /\ SingleSpaced(content)
    /\ WordsWithin(content, LongestEvenWord)
    /\ ~WordsWithin(content, LongestEvenWord - 1)
    /\ Len(pages) = 3

\* C5 as stated: any 3000-character single-paragraph text yields exactly 3 pages
\* within the budget that joined by single spaces reproduce the text.
C5_AnySingleParagraph ==
    (/\ pc = "done"
     /\ Len(content) = E2ELength
     /\ approxCharsPerPage = DefaultBudget
     /\ SingleParagraph(content))
        => ThreePagesRoundTrip

(***************************************************************************)
(* Properties of the genre helpers                                         *)
(***************************************************************************)

\* The genres a document can be classified as: every genre but the wildcard.
Categories == {GENRES[i] : i \in 1..Len(GENRES)} \ {"All"}

\* The category the tag match m names (Null if there is no match or its word, in
\* any case, is no category's name).
TagCategory(m) ==
    IF m # NoMatch /\ \E g \in Categories : toLowerCase(Spelling[g]) = toLowerCase(m.word)
    THEN CHOOSE g \in Categories : toLowerCase(Spelling[g]) = toLowerCase(m.word)
    ELSE Null

\* The category of the first tag of text s.
FirstTagCategory(s) == TagCategory(tagMatch(s))

\* The categories named by the tags found anywhere in text s.
TagCategories(s) == {TagCategory(tagMatchAt(s, i)) : i \in 1..Len(s)} \ {Null}

\* The keywords in the order they are tested, each with its category.
Keywords ==
    << [word |-> <<"a", "d", "v", "e", "n", "t", "u", "r", "e">>, category |-> "Adventure"],
       [word |-> <<"f", "a", "n", "t", "a", "s", "y">>, category |-> "Fantasy"],
       [word |-> <<"h", "i", "s", "t", "o", "r", "y">>, category |-> "History"],
       [word |-> <<"s", "c", "i", "e", "n", "c", "e">>, category |-> "Science"],
       [word |-> <<"m", "y", "s", "t", "e", "r", "y">>, category |-> "Mystery"],
       [word |-> <<"h", "o", "r", "r", "o", "r">>, category |-> "Horror"],
       [word |-> <<"p", "o", "e", "m">>, category |-> "Poetry"],
       [word |-> <<"p", "o", "e", "t", "r", "y">>, category |-> "Poetry"],
       [word |-> <<"b", "i", "o", "g", "r", "a", "p", "h", "y">>, category |-> "Biography"],
       [word |-> <<"m", "e", "m", "o", "i", "r">>, category |-> "Biography"] >>

\* The category of the first keyword, in that order, that occurs in text s without
\* regard to case; Misc if none occurs.
FirstKeywordCategory(s) ==
    IF \E i \in 1..Len(Keywords) : includes(toLowerCase(s), Keywords[i].word)
    THEN Keywords[CHOOSE i \in 1..Len(Keywords) :
                      /\ includes(toLowerCase(s), Keywords[i].word)
                      /\ \A j \in 1..(i - 1) : ~includes(toLowerCase(s), Keywords[j].word)].category
    ELSE "Misc"

\* C7: deriveGenre returns one of the nine categories and never the wildcard All,
\* also for a text that carries the tag [genre: All].
C7_NeverWildcard ==
    pc = "done" => derived \in Categories

\* A document whose summary and content both start their tags with [genre: All].
C7_Witness ==
    /\ pc = "done"
    /\ tagMatch(summary) # NoMatch /\ toLowerCase(tagMatch(summary).word) = <<"a", "l", "l">>
    /\ tagMatch(content) # NoMatch /\ toLowerCase(tagMatch(content).word) = <<"a", "l", "l">>

\* C8 (as amended): a document in whose summary the first tag [genre: W] names a
\* category G (in any case) classifies as G whatever the content holds; only when
\* the summary's first tag is missing or names no category is the content
\* searched, and a category named by the content's first tag then wins over every
\* keyword.
C8_FirstTagWins ==
    pc = "done" =>
        /\ FirstTagCategory(summary) # Null => derived = FirstTagCategory(summary)
        /\ (FirstTagCategory(summary) = Null /\ FirstTagCategory(content) # Null)
               => derived = FirstTagCategory(content)

\* The summary's tag and the content's tag name different categories, and a
\* keyword of a third category is present.
C8_Witness ==
    /\ pc = "done"
    /\ FirstTagCategory(summary) # Null
    /\ FirstTagCategory(content) # Null
    /\ FirstTagCategory(summary) # FirstTagCategory(content)
    /\ FirstKeywordCategory(summary \o <<NL>> \o content)
           \notin {FirstTagCategory(summary), FirstTagCategory(content), "Misc"}
    /\ derived = FirstTagCategory(summary)

\* C8 as stated: a document whose summary contains a tag that names a category
\* classifies as a category such a tag of the summary names.
C8_AnySummaryTagWins ==
    pc = "done" =>
        (TagCategories(summary) # {} => derived \in TagCategories(summary))

\* C9 (as amended): when neither the summary nor the content yields a recognised
\* tag, the result is the first category, in the fixed order, whose keyword
\* occurs without regard to case in the summary, a line break and the content
\* joined (so within the summary or within the content, never across the two);
\* Misc when no keyword occurs.
C9_KeywordFallback ==
    (/\ pc = "done"
     /\ FirstTagCategory(summary) = Null
     /\ FirstTagCategory(content) = Null)
        => derived = FirstKeywordCategory(summary \o <<NL>> \o content)

\* An untagged document with keywords of two categories, classified by the
\* keyword that is tested first although it occurs last.
C9_Witness ==
    /\ pc = "done"
    /\ tagMatch(summary) = NoMatch /\ tagMatch(content) = NoMatch
    /\ includes(toLowerCase(summary), <<"p", "o", "e", "m">>)
    /\ includes(toLowerCase(content), <<"m", "y", "s", "t", "e", "r", "y">>)
    /\ derived = "Mystery"

\* C9 as stated: the keyword is looked for in summary plus content.
C9_KeywordInConcatenation ==
    (/\ pc = "done"
     /\ FirstTagCategory(summary) = Null
     /\ FirstTagCategory(content) = Null)
        => derived = FirstKeywordCategory(summary \o content)

\* Text s carries no genre tag.
Untagged(s) == tagMatch(s) = NoMatch

\* C10 (as amended): for an untagged text s and a genre g other than Misc,
\* stripGenreTag(applyGenreTag(s, g)) is s with its leading and its trailing
\* white space removed.
C10_RoundTripTrims ==
    (pc = "done" /\ genre # "Misc" /\ Untagged(summary))
        => stripped = trim(summary)

\* An untagged summary with leading white space before its text went the round.
C10_Witness ==
    /\ pc = "done"
    /\ genre \notin {"Misc", "All"}
    /\ Untagged(summary)
    /\ firstNonSpace(summary) > 1
    /\ trim(summary) # EmptyStr
    /\ tagMatch(taggedSummary) # NoMatch

\* C10 as stated: the round trip gives s back with only its trailing white space
\* normalized.
C10_RoundTripKeepsLeading ==
    (pc = "done" /\ genre \in Categories \ {"Misc"} /\ Untagged(summary))
        => stripped = trimEnd(summary)

\* The texts of the tags found anywhere in text s.
TagTexts(s) ==
    {SubSeq(s, tagMatchAt(s, i).start, tagMatchAt(s, i).end) :
        i \in {j \in 1..Len(s) : s[j] = "[" /\ tagMatchAt(s, j) # NoMatch}}

\* Cutting the first tag out of text s joins the text before it and the text
\* after it to a tag.
JoinsToTag(s) ==
    LET m == tagMatch(s)
        cut == removeTag(s)
    IN /\ m # NoMatch
       /\ \E i \in 1..(m.start - 1) :
              cut[i] = "[" /\ tagMatchAt(cut, i) # NoMatch /\ tagMatchAt(cut, i).end >= m.start

\* The tag applyGenreTag writes for genre g: "[genre: g]", g spelled as in GENRES.
TagFor(g) == TagOpen \o <<SP>> \o Spelling[g] \o <<"]">>

\* C11 (as amended): applyGenreTag(s, "Misc") carries no tag that s did not
\* carry, unless cutting the first tag out of s joins the text around it to a
\* tag; for every other genre g the result starts with "[genre: g]", g written
\* as GENRES spells it.
C11_TagWrittenUnlessMisc ==
    pc # "input" =>
        IF genre = "Misc"
        THEN ~JoinsToTag(summary) => TagTexts(taggedSummary) \subseteq TagTexts(summary)
        ELSE /\ Len(taggedSummary) >= Len(TagFor(genre))
             /\ SubSeq(taggedSummary, 1, Len(TagFor(genre))) = TagFor(genre)

\* A summary with two tags was given the genre Misc: its second tag is the
\* result's tag.
C11_Witness ==
    /\ pc = "tagged"
    /\ genre = "Misc"
    /\ ~JoinsToTag(summary)
    /\ Cardinality(TagTexts(summary)) = 2
    /\ TagTexts(taggedSummary) # {}

\* C11 as stated: applyGenreTag(s, "Misc") carries no tag that s did not carry,
\* whatever s is.
C11_MiscCarriesNoNewTag ==
    (pc # "input" /\ genre = "Misc") => TagTexts(taggedSummary) \subseteq TagTexts(summary)

(***************************************************************************)
(* Properties of the filter and sort pipeline                              *)
(***************************************************************************)

\* The members of a list.
Members(list) == {list[i] : i \in 1..Len(list)}

\* Title, author, summary and content of document b taken together, one to a
\* line; a column without a value contributes no text.
Together(b) ==
    orEmpty(b.name) \o <<NL>> \o orEmpty(b.author) \o <<NL>> \o orEmpty(b.summary)
        \o <<NL>> \o orEmpty(b.content_md)

\* Document b satisfies the three conditions of the filter.
Satisfies(b) ==
    /\ ~onlyFavorites \/ has(favorites, b.id)
    /\ selectedGenre = "All" \/ selectedGenre = deriveGenre(orEmpty(b.summary), orEmpty(b.content_md))
    /\ \/ trim(debouncedQuery) = EmptyStr
       \/ includes(toLowerCase(Together(b)), toLowerCase(trim(debouncedQuery)))

\* C12 as stated: the filtered list holds exactly the loaded documents that
\* satisfy the favorites condition, the genre condition and the query condition.
C12_FilteredIsSatisfying ==
    Members(filteredBooks) = {b \in Members(books) : Satisfies(b)}

\* The order of documents a and b under the chosen key: negative if a comes
\* first, positive if b comes first.
keyOrder(a, b) ==
    IF sortBy = "title" THEN localeCompare(a.name, b.name)
    ELSE IF sortBy = "author" THEN localeCompare(a.author, b.author)
    ELSE localeCompare(b.created_at, a.created_at)

\* C13: the display list is a permutation of the filtered list, no document that
\* is not a favorite precedes a favorite, and two documents that are both
\* favorites or both not are in the order of the chosen key.
C13_FavoritesPinnedThenKey ==
    LET list == formattedBooks
    IN /\ Len(list) = Len(filteredBooks)
       /\ Members(list) = Members(filteredBooks)
       /\ \A i, j \in 1..Len(list) :
              i < j =>
                  /\ has(favorites, list[j].id) => has(favorites, list[i].id)
                  /\ has(favorites, list[i].id) = has(favorites, list[j].id)
                         => keyOrder(list[i], list[j]) <= 0

\* The example: under title sort the favorite "Zeta" is displayed before the
\* other Fantasy document "Alpha", with a third document behind it.
C13_Witness ==
    /\ sortBy = "title"
    /\ selectedGenre = "Fantasy"
    /\ Len(books) = 3
    /\ Len(formattedBooks) = 2
    /\ formattedBooks[1].name = <<"Z", "e", "t", "a">>
    /\ has(favorites, formattedBooks[1].id)
    /\ formattedBooks[2].name = <<"A", "l", "p", "h", "a">>
    /\ ~has(favorites, formattedBooks[2].id)

(***************************************************************************)
(* Properties of the search debounce and the favorite set                  *)
(***************************************************************************)

\* C14: debouncedQuery changes only to the input's value once the input has held
\* it for the delay, or to the empty query together with the input (clearFilters);
\* and unless the input keeps changing, debouncedQuery is in the end equal to it.
C14_Debounce ==
    /\ [][debouncedQuery' # debouncedQuery =>
             \/ /\ debouncedQuery' = searchQuery
                /\ searchQuery' = searchQuery
                /\ heldMs >= DebounceMs
             \/ /\ debouncedQuery' = EmptyStr
                /\ searchQuery' = EmptyStr]_vars
    /\ (<>[](debouncedQuery = searchQuery) \/ []<><<Typing \/ clearFilters>>_vars)

\* A typed query was held for the delay and has become the query of the filter;
\* no timer is left.
C14_Witness ==
    /\ searchQuery = <<"z", "e">>
    /\ debouncedQuery = searchQuery
    /\ searchTimer = NoTimer
    /\ heldMs = DebounceMs

\* C15: a step of toggleFavorite(id) leaves under "favorites" the array of
\* exactly the ids of the new favorite set, and the new favorite set differs
\* from the old one in id alone: id is in it if and only if it was not.
C15_ToggleStoresFavorites ==
    [][\A id \in FavoriteIds :
           toggleFavorite(id) =>
               /\ storedFavorites'.json = "array"
               /\ Members(storedFavorites'.items) = Members(favorites')
               /\ has(favorites', id) = ~has(favorites, id)
               /\ \A other \in (Members(favorites) \cup Members(favorites')) \ {id} :
                      has(favorites', other) = has(favorites, other)]_vars

\* A favorite was removed while another one, loaded from storage, stayed.
C15_Witness ==
    /\ storedFavorites = jsonArray(<<3>>)
    /\ favorites = <<3>>

(***************************************************************************)
(* Properties of the store handlers                                        *)
(***************************************************************************)

\* A step that sends a request of kind op.
Sends(op) == pending = NoRequest /\ pending' # NoRequest /\ pending'.op = op

\* C16: addBook sends an insert only for an admin or an author; saveEdit and
\* deleteBook send an update or a delete only for a signed-in user who is admin
\* or whose id is the document's created_by; a handler that is called in any
\* other state sends nothing and raises a notice.
C16_RequestsOnlyWhenAuthorized ==
    [][/\ Sends("insert") => canWrite
       /\ Sends("update") \/ Sends("delete") =>
              /\ user # NoUser
              /\ isAdmin \/ user.id = pending'.book.created_by
       /\ SubmitAdd /\ trim(addForm.content) # EmptyStr /\ ~canWrite =>
              pending' = NoRequest /\ notice' # NoNotice
       /\ ClickSave /\ (user = NoUser \/ ~mayChange(expandedBook.created_by)) =>
              pending' = NoRequest /\ notice' # NoNotice]_vars

\* The requests that are sent for a signed-in user, and the insert for anybody:
\* the part of C16 that the handlers keep.
C16_SignedInRequestsAuthorized ==
    [][/\ Sends("insert") => canWrite
       /\ user # NoUser /\ (Sends("update") \/ Sends("delete")) =>
              isAdmin \/ user.id = pending'.book.created_by
       /\ SubmitAdd /\ trim(addForm.content) # EmptyStr /\ ~canWrite =>
              pending' = NoRequest /\ notice' # NoNotice
       /\ ClickSave /\ ~mayChange(expandedBook.created_by) =>
              pending' = NoRequest /\ notice' # NoNotice]_vars

\* Nobody is signed in and the update of a document without created_by is in
\* flight.
C16_UpdateSentWithoutUser ==
    /\ user = NoUser
    /\ pending.op = "update"
    /\ pending.book.created_by = Undefined

\* A step in which a handler goes on from the error that the store replied.
ErrorReturns(op) ==
    /\ pending.op = op
    /\ pending.reply.kind = "error"
    /\ pending' = NoRequest

\* What the claims about failed requests call the local state.
localState == <<books, expandedBook, isEditing, editDraft, editGenre, addForm>>

\* C17 as stated: after an error of the list query, an insert, an update or a
\* delete the notice carries the message of the store, and the local state is
\* as it was.
C17_ErrorNoticeCarriesMessage ==
    [][\A op \in {"select", "insert", "update", "delete"} :
           ErrorReturns(op) =>
               /\ notice' # NoNotice
               /\ notice'.description = pending.reply.message
               /\ UNCHANGED localState]_vars

\* C17: after an error of an insert, an update or a delete the notice carries
\* the message of the store; after an error of the list query it carries the
\* fixed text of "Restricted" for status 403, the message if there is one, and
\* "Unknown error" if there is none; in each case the local state is as it was.
C17_ErrorNoticeAndStateKept ==
    [][\A op \in {"select", "insert", "update", "delete"} :
           ErrorReturns(op) =>
               /\ notice' # NoNotice
               /\ notice'.description =
                      IF op = "select" /\ pending.reply.status = 403
                      THEN "You must be signed in to view the archive."
                      ELSE IF op = "select" /\ pending.reply.message = ""
                      THEN "Unknown error"
                      ELSE pending.reply.message
               /\ UNCHANGED localState]_vars

\* The update of an open document failed: the notice carries the message, the
\* edit form is still open with the changed draft.
C17_Witness ==
    /\ notice = toast("Error updating book", "row violates policy")
    /\ pending = NoRequest
    /\ isEditing
    /\ expandedBook # NoBook
    /\ editDraft.name = <<"m">>
    /\ expandedBook.name = <<"n">>

(***************************************************************************)
(* Properties of the unconfigured client and of the session                *)
(***************************************************************************)

\* What a request or a session would change.
untouched ==
    <<books, user, session, storedTs, timers, calls, pending, loading, loadingBooks, addForm,
      expandedBook, isEditing, loginAt>>

\* C18: without a client nothing is sent to the store or to the auth service
\* (no request and no call is awaited), the list stays empty and the user null;
\* fetchBooks and logout change nothing, addBook only raises a toast, login and
\* signUp throw "Supabase not configured"; and the provider's loading flag
\* becomes false and stays false.
C18_UnconfiguredSendsNothing ==
    /\ [](/\ pending = NoRequest
          /\ calls \subseteq {MountEffect}
          /\ books = << >>
          /\ user = NoUser
          /\ session = "none")
    /\ [][/\ fetchBooks \/ logout => UNCHANGED untouched /\ notice' = NoNotice
          /\ addBook => UNCHANGED untouched /\ notice' # NoNotice
          /\ login \/ signUp =>
                 UNCHANGED untouched /\ authError' = "Supabase not configured"]_vars
    /\ <>[](loading = FALSE)

\* login has thrown, addBook has then raised its toast for a content that is
\* not empty, and the provider is settled.
C18_Witness ==
    /\ supabase = Null
    /\ authError = "Supabase not configured"
    /\ notice = toast("Supabase not configured", "Cannot save without Supabase credentials.")
    /\ loading = FALSE
    /\ calls = {}

\* C19: once logout() has completed the user is null, until a later login or
\* sign-up succeeds or the listener is given a session; in particular no
\* getProfile that was awaited when logout completed sets the user.
C19_UserNullAfterLogout == loggedOut => user = NoUser

\* The refreshes alone: a getProfile that the focus listener or the auth-state
\* listener called does not set the user once logout() has completed.
C19_RefreshKeepsUserNull ==
    [][\A c \in calls :
           /\ c.kind = "getProfile"
           /\ c.from \in {"auth", "focus"}
           /\ calls' = calls \ {c}
           /\ loggedOut
           => user' = NoUser]_vars

\* Nobody is signed in at the service after logout(), yet user is set and
\* nothing is awaited that would change it.
C19_UserSetAfterLogout ==
    /\ loggedOut
    /\ session = "none"
    /\ user # NoUser
    /\ calls = {}

\* C20: when nothing is awaited, no login that was followed neither by a
\* logout nor by the expiry is older than 3 days, be the page open all the
\* time or loaded again with the old stored time; and the expiry ends the
\* session at the service, removes the stored time and sets the user to null.
C20_ExpiresAfterThreeDays ==
    /\ [](calls = {} /\ loginAt # 0 /\ ~loggedOut /\ ~expired => now - loginAt <= SESSION_MAX_MS)
    /\ [][expiryReturns => session' = "none" /\ storedTs' = 0 /\ user' = NoUser]_vars

\* Three days after the login of day 1, without any logout, the user has been
\* signed out.
C20_Witness ==
    /\ loginAt = MsPerDay
    /\ now = loginAt + SESSION_MAX_MS
    /\ ~loggedOut
    /\ expired
    /\ session = "none"
    /\ storedTs = 0
    /\ user = NoUser
    /\ calls = {}

(***************************************************************************)
(* Properties of the reader                                                *)
(***************************************************************************)

\* Whether the "book" parameter names a loaded document.
namesLoaded == \E i \in 1..Len(books) : books[i].id = urlBook

\* C21: with the documents loaded and no request awaited, the "book" parameter
\* names a loaded document exactly when the reader is open, and the document it
\* names is the open one.
C21_ParamExactlyWhenOpen ==
    (pending = NoRequest /\ Len(books) > 0) =>
        IF expandedBook = NoBook
        THEN urlBook = 0 \/ ~namesLoaded
        ELSE urlBook = expandedBook.id

\* C21: a step that closes the reader removes the parameter.
C21_CloseRemovesParam ==
    [][(expandedBook # NoBook /\ expandedBook' = NoBook) => urlBook' = 0]_vars

\* C21: a step that opens the reader sets the parameter to the id of the
\* document it opens.
C21_OpenSetsParam ==
    [][(expandedBook = NoBook /\ expandedBook' # NoBook) => urlBook' = expandedBook'.id]_vars

\* C24: while the reader is open the page index is a page of the open document.
C24_PageIndexInRange ==
    expandedBook # NoBook => (0 <= pageIndex /\ pageIndex <= Len(currentPages) - 1)

\* C25: the update saveEdit sends for a document carries a draft that was filled
\* from that document.
C25_UpdateCarriesOwnDraft == pending.op = "update" => draftOf = pending.book.id

(***************************************************************************)
(* Properties of the add dialog                                            *)
(***************************************************************************)

\* C22: no handler of the clipboard or of an imported or dropped file ends in
\* a rejection that nothing catches.
C22_NoUnhandledRejection == unhandled = FALSE

C26_ExpiryEndsOwnSession == expired => now >= loginAt + SESSION_MAX_MS

(***************************************************************************)
(* Properties of the genre helpers in the editor                           *)
(***************************************************************************)

C23_FailureYieldsMember ==
    authError = "profile query failed" => (user # NoUser /\ user.role = "member")

\* C23: a session user has a role the profiles table gave for that user, or
\* "member".
C23_RoleFromProfileOrMember == user # NoUser => user.role \in ProfileRoles \cup {"member"}

\* C29: after mount the loading flag eventually becomes false.
C29_LoadingEnds == <>(loading = FALSE)

\* C29: once false, the loading flag stays false.
C29_LoadingStaysFalse == [][loading = FALSE => loading' = FALSE]_vars

=============================================================================
